---------------------------- MODULE Spec2Model ----------------------------
(***************************************************************************)
(* Menu-management console: the in-memory storage collaborator             *)
(* (services/mockApiService.ts), the spreadsheet upload of App.tsx         *)
(* (handleExcelUpload), and the file export/import of                      *)
(* services/exportImportService.ts (exportToJSON, importData) with the     *)
(* handleImport of App.tsx.                                                *)
(* The category dialogs (handleSaveCategory, handleDeleteCategory), the    *)
(* workbook export (handleExcelExport) and the busy overlay are modelled    *)
(* as well; SpecLive adds files the browser cannot read.                    *)
(* The CSV export (handleExport, exportToCSV) and the CSV reader are       *)
(* applied alone to bounded items, lines and cells in SpecCsv and          *)
(* SpecEnums; SpecToggle has the availability switches of the item list,   *)
(* SpecReorder the drag-and-drop order of the category list.               *)
(*                                                                         *)
(* Text is a sequence of one-character strings, so that toLowerCase,       *)
(* parseFloat, String.includes and the quote stripping of the CSV reader   *)
(* are computed and not assumed.  Prices are integers in hundredths.       *)
(* Ids are pairs: <<"cat", n>> is the string `cat-n`, <<"item", n>> is     *)
(* `item-n`, <<"rnd", k>> is a string drawn by generateId.                 *)
(* Every asynchronous handler is cut at its awaits: one action per         *)
(* synchronous segment, as the JavaScript event loop runs it.              *)
(***************************************************************************)
EXTENDS Integers, Sequences, FiniteSets, TLC

\* ------------------------------------------------------------------ bounds
\* Rows of an uploaded sheet / data lines of an imported CSV file.
MaxRows == 2
\* simulateDelay periods after which the user starts no further operation.
MaxDelays == 2
\* Date.now() when the page is loaded (any value far above the seeded ids).
Epoch == 1000
\* Strings generateId can draw.
MaxRandomIds == 2
\* Calls to the collaborator that can be pending when the category form is
\* submitted or a category row is dropped.
MaxPending == 2
\* Characters in the name of an item written to a CSV line.
MaxNameLen == 3
\* updateMenuItem calls of availability toggles that can be pending together.
MaxToggles == 2

\* ------------------------------------------------------- program constants
SimulateDelay == 500

Horizon == Epoch + MaxDelays * SimulateDelay

\* -------------------------------------------------------------------- text
\* A missing cell; String(undefined) is the text "undefined", which no cell of
\* one-character strings equals.
Undefined == <<"undefined">>
\* A JavaScript number: NaN, or a value in hundredths.
NaN == [nan |-> TRUE, val |-> 0]
Num(n) == [nan |-> FALSE, val |-> n]
\* null (no category selected, no pending closure)
Null == <<>>

UpperChars == <<"A","B","C","D","E","F","G","H","I","J","K","L","M",
                "N","O","P","Q","R","S","T","U","V","W","X","Y","Z">>
LowerChars == <<"a","b","c","d","e","f","g","h","i","j","k","l","m",
                "n","o","p","q","r","s","t","u","v","w","x","y","z">>
Digits == <<"0","1","2","3","4","5","6","7","8","9">>

IndexIn(c, alphabet) ==
    IF \E i \in DOMAIN alphabet : alphabet[i] = c
    THEN CHOOSE i \in DOMAIN alphabet : alphabet[i] = c
    ELSE 0

LowerChar(c) == IF IndexIn(c, UpperChars) > 0 THEN LowerChars[IndexIn(c, UpperChars)] ELSE c

\* String.prototype.toLowerCase
RECURSIVE ToLowerCase(_)
ToLowerCase(s) ==
    IF s = <<>> THEN <<>>
    ELSE Append(ToLowerCase(SubSeq(s, 1, Len(s) - 1)), LowerChar(s[Len(s)]))

\* String.prototype.includes
Includes(s, sub) ==
    \E k \in 0..(Len(s) - Len(sub)) : \A j \in 1..Len(sub) : s[k + j] = sub[j]

\* s.replace(/"/g, '')
StripQuotes(s) == SelectSeq(s, LAMBDA c : c # "\"")

\* JavaScript truthiness of a cell: undefined and '' are falsy.
Truthy(v) == v # Undefined /\ v # <<>>

\* String(v || '')
StringOrEmpty(v) == IF Truthy(v) THEN v ELSE <<>>

IsDigit(c) == IndexIn(c, Digits) > 0
DigitVal(c) == IndexIn(c, Digits) - 1

\* Index after the longest run of digits of s that starts at i.
RECURSIVE DigitsEnd(_, _)
DigitsEnd(s, i) == IF i <= Len(s) /\ IsDigit(s[i]) THEN DigitsEnd(s, i + 1) ELSE i

\* Index after the leading white space of s.
RECURSIVE SkipSpace(_, _)
SkipSpace(s, i) == IF i <= Len(s) /\ s[i] = " " THEN SkipSpace(s, i + 1) ELSE i

\* Value of the digits s[i..j-1].
RECURSIVE DigitsValue(_, _, _)
DigitsValue(s, i, j) ==
    IF i >= j THEN 0 ELSE DigitsValue(s, i, j - 1) * 10 + DigitVal(s[j - 1])

\* The first two fraction digits s[i..j-1] as hundredths.
Hundredths(s, i, j) ==
    (IF i < j THEN 10 * DigitVal(s[i]) ELSE 0) + (IF i + 1 < j THEN DigitVal(s[i + 1]) ELSE 0)

\* parseFloat: the longest numeric prefix after leading white space (sign,
\* digits, fraction), NaN when there is none; text after the prefix is ignored.
\* The result is in hundredths.
ParseFloat(v) ==
    IF v = Undefined THEN NaN
    ELSE LET a    == SkipSpace(v, 1)
             neg  == a <= Len(v) /\ v[a] = "-"
             b    == IF a <= Len(v) /\ v[a] \in {"-", "+"} THEN a + 1 ELSE a
             c    == DigitsEnd(v, b)
             dot  == c <= Len(v) /\ v[c] = "."
             d    == IF dot THEN DigitsEnd(v, c + 1) ELSE c
             some == c > b \/ (dot /\ d > c + 1)
             abs  == DigitsValue(v, b, c) * 100 + (IF dot THEN Hundredths(v, c + 1, d) ELSE 0)
         IN  IF ~some THEN NaN ELSE IF neg THEN Num(0 - abs) ELSE Num(abs)

\* isNaN(price) || price <= 0
InvalidPrice(price) == price.nan \/ price.val <= 0


\* ------------------------------------------------- storage (mockApiService)
CatId(n) == <<"cat", n>>
ItemId(n) == <<"item", n>>

Appetizers == <<"A","p","p","e","t","i","z","e","r","s">>
MainCourse == <<"M","a","i","n"," ","C","o","u","r","s","e">>
Desserts == <<"D","e","s","s","e","r","t","s">>
Beverages == <<"B","e","v","e","r","a","g","e","s">>

initialCategoriesData ==
    << [id |-> CatId(1), name |-> Appetizers, sortOrder |-> 1],
       [id |-> CatId(2), name |-> MainCourse, sortOrder |-> 2],
       [id |-> CatId(3), name |-> Desserts,   sortOrder |-> 3],
       [id |-> CatId(4), name |-> Beverages,  sortOrder |-> 4] >>

initialMenuItemsData ==
    << [id |-> ItemId(1), name |-> <<"B","r","u","s","c","h","e","t","t","a">>,
        description |-> <<"T","o","a","s","t","e","d">>, price |-> 899, categoryId |-> CatId(1),
        availabilityFlag |-> TRUE],
       [id |-> ItemId(2), name |-> <<"M","a","r","g","h","e","r","i","t","a">>,
        description |-> <<"C","l","a","s","s","i","c">>, price |-> 1699, categoryId |-> CatId(2),
        availabilityFlag |-> TRUE],
       [id |-> ItemId(3), name |-> <<"C","a","e","s","a","r">>,
        description |-> <<"F","r","e","s","h">>, price |-> 1299, categoryId |-> CatId(1),
        availabilityFlag |-> TRUE],
       [id |-> ItemId(4), name |-> <<"L","a","v","a">>,
        description |-> <<"W","a","r","m">>, price |-> 999, categoryId |-> CatId(3),
        availabilityFlag |-> TRUE],
       [id |-> ItemId(5), name |-> <<"L","a","t","t","e">>,
        description |-> <<"S","m","o","o","t","h">>, price |-> 499, categoryId |-> CatId(4),
        availabilityFlag |-> TRUE] >>

\* A JavaScript Map keyed by id, in insertion order: a sequence of records with
\* distinct ids.  Map.set on a key already present replaces the value in place.
MapHas(db, id) == \E i \in DOMAIN db : db[i].id = id
MapGet(db, id) == db[CHOOSE i \in DOMAIN db : db[i].id = id]
MapSet(db, rec) ==
    IF MapHas(db, rec.id)
    THEN [i \in DOMAIN db |-> IF db[i].id = rec.id THEN rec ELSE db[i]]
    ELSE Append(db, rec)
MapDelete(db, id) == SelectSeq(db, LAMBDA r : r.id # id)
MapIds(db) == {db[i].id : i \in DOMAIN db}

\* Array.prototype.sort((a, b) => a.sortOrder - b.sortOrder): a stable sort.
RECURSIVE InsertSorted(_, _)
InsertSorted(sorted, c) ==
    IF sorted = <<>> THEN <<c>>
    ELSE IF sorted[Len(sorted)].sortOrder <= c.sortOrder THEN Append(sorted, c)
    ELSE Append(InsertSorted(SubSeq(sorted, 1, Len(sorted) - 1), c), sorted[Len(sorted)])
RECURSIVE SortBySortOrder(_)
SortBySortOrder(cs) ==
    IF cs = <<>> THEN <<>>
    ELSE InsertSorted(SortBySortOrder(SubSeq(cs, 1, Len(cs) - 1)), cs[Len(cs)])

\* getCategories: the value computed when the call is made (resolveWithCopy
\* clones it after the delay).
getCategories(db) == SortBySortOrder(db)

\* getMenuItems(tenant, categoryId)
getMenuItems(db, categoryId) == SelectSeq(db, LAMBDA it : it.categoryId = categoryId)

\* addCategory: the new record, id `cat-${Date.now()}`.
NewCategory(categoryData, t) ==
    [id |-> CatId(t), name |-> categoryData.name, sortOrder |-> categoryData.sortOrder]
addCategory(db, categoryData, t) == MapSet(db, NewCategory(categoryData, t))

\* addMenuItem: the new record, id `item-${Date.now()}`; an id carried by the
\* data is overwritten.
NewMenuItem(itemData, n) ==
    [id |-> ItemId(n), name |-> itemData.name, description |-> itemData.description,
     price |-> itemData.price, categoryId |-> itemData.categoryId,
     availabilityFlag |-> itemData.availabilityFlag]
addMenuItem(db, itemData, t) == MapSet(db, NewMenuItem(itemData, t))

\* A faulty batch that stores its first item only.
addFirstItemOnly(db, itemsData, startId) == addMenuItem(db, itemsData[1], startId)

\* addMenuItemsBatch: ids `item-${startId + index}`, index from 0.
RECURSIVE addMenuItemsBatch(_, _, _)
addMenuItemsBatch(db, itemsData, startId) ==
    IF itemsData = <<>> THEN db
    ELSE LET n == Len(itemsData)
         IN  MapSet(addMenuItemsBatch(db, SubSeq(itemsData, 1, n - 1), startId),
                    NewMenuItem(itemsData[n], startId + n - 1))

\* A faulty cascade that keeps the items of the deleted category.
keepCategoryItems(db, categoryId) == db

\* deleteCategory: the category and every item of it.
deleteCategoryItems(db, categoryId) == SelectSeq(db, LAMBDA it : it.categoryId # categoryId)


\* ------------------------------------------------------------------- state
VARIABLES
    now,               \* Date.now()
    categoryDB,        \* mockApiService: the category Map
    menuItemDB,        \* mockApiService: the item Map
    timers,            \* pending simulateDelay timers with their continuations, oldest first
    categories,        \* App state
    menuItems,         \* App state
    selectedCategory,  \* App state: the id of the selected category, or Null
    loading,           \* App state
    isUploading,       \* App state
    isExporting,       \* App state
    toast,             \* App state: the message on screen
    up,                \* the locals of the handleExcelUpload run
    exported,          \* the JSON file last written by exportToJSON
    im,                \* the locals of the handleImport run
    isCategoryModalOpen,  \* App state
    isConfirmModalOpen,   \* App state
    deleteAction,      \* App state: the closure the confirmation dialog runs, or Null
    download,          \* the CSV file last written by handleExport
    trial              \* the argument and the result of a service function applied alone

vars == <<now, categoryDB, menuItemDB, timers, categories, menuItems, selectedCategory,
          loading, isUploading, isExporting, toast, up, exported, im,
          isCategoryModalOpen, isConfirmModalOpen, deleteAction,
          download, trial>>

dialogVars == <<isCategoryModalOpen, isConfirmModalOpen, deleteAction>>

otherVars == <<download, trial>>

storageVars == <<categoryDB, menuItemDB>>

\* showToast(message, type): `kind` names the message template, n and m the
\* numbers printed in it.
Toast(type, kind, n, m) == [type |-> type, kind |-> kind, n |-> n, m |-> m]
NoToast == Toast("none", "none", 0, 0)

\* A call to the storage collaborator that is awaited: the promise settles when
\* its simulateDelay timer fires.  All timers have the same delay, so they fire
\* in the order they were set.  `ok` is whether the collaborator resolves; a
\* rejected call changes nothing in storage.
Call(k, ok, data) == [k |-> k, due |-> now + SimulateDelay, ok |-> ok, data |-> data]

Fires(k) == timers # <<>> /\ timers[1].k = k
Later(t) == IF t > now THEN t ELSE now

\* What is on screen.
\* A page without the busy overlay.
noOverlay == FALSE

\* The busy overlay (App.tsx 601-611) covers the page and its dialogs.
overlay == isUploading \/ isExporting
\* A dialog covers the page below it (CategoryList.tsx 239, 324).
dialog == isCategoryModalOpen \/ isConfirmModalOpen
viewCategoryList == ~loading /\ selectedCategory = Null /\ ~overlay /\ ~dialog
viewItemList == ~loading /\ selectedCategory # Null /\ ~overlay /\ ~dialog
UserCanStart == now < Horizon
\* The item list is one selection, so one delay, further from the mount.
ItemViewCanStart == now < Horizon + SimulateDelay

UpIdle == [pc |-> "idle"]
ImIdle == [pc |-> "idle"]
NoFile == [written |-> FALSE]
NoTrial == [pc |-> "none"]

\* The page after construction: the module-level Maps hold the seed data, the
\* state hooks hold their initial values, and the mount effect has called
\* fetchCategories (App.tsx 109-111), whose getCategories timer is pending.
InitPage ==
    /\ now = Epoch
    /\ categoryDB = initialCategoriesData
    /\ menuItemDB = initialMenuItemsData
    /\ \E ok \in BOOLEAN :
         timers = << [k |-> "fetchCategories", due |-> Epoch + SimulateDelay, ok |-> ok,
                      data |-> [list |-> getCategories(initialCategoriesData), sel |-> Null]] >>
    /\ categories = <<>>
    /\ menuItems = <<>>
    /\ selectedCategory = Null
    /\ loading = TRUE
    /\ isUploading = FALSE
    /\ isExporting = FALSE
    /\ toast = NoToast
    /\ up = UpIdle
    /\ exported = NoFile
    /\ im = ImIdle
    /\ isCategoryModalOpen = FALSE
    /\ isConfirmModalOpen = FALSE
    /\ deleteAction = Null
    /\ download = NoFile

Init == InitPage /\ trial = NoTrial

\* ------------------------------------------------ fetching and navigation
\* fetchCategories, from `await api.getCategories` on (App.tsx 82-92).  sel is
\* the selectedCategory of the closure that made the call.
FetchCategoriesDone ==
    /\ Fires("fetchCategories")
    /\ LET c == timers[1] IN
       /\ now' = Later(c.due)
       /\ timers' = Tail(timers)
       /\ loading' = FALSE
       /\ IF c.ok
          THEN /\ categories' = c.data.list
               /\ IF c.data.sel # Null /\ ~MapHas(c.data.list, c.data.sel)
                  THEN selectedCategory' = Null /\ menuItems' = <<>>
                  ELSE UNCHANGED <<selectedCategory, menuItems>>
               /\ UNCHANGED toast
          ELSE /\ toast' = Toast("error", "Failed to fetch categories.", 0, 0)
               /\ UNCHANGED <<categories, selectedCategory, menuItems>>
    /\ UNCHANGED <<otherVars, dialogVars, storageVars, isUploading, isExporting, up, exported, im>>

\* The effect of App.tsx 109-111 runs again whenever fetchCategories changes,
\* that is whenever selectedCategory changes: setLoading(true) and a new
\* getCategories call made with the new selection.
EffectFetchCategories(sel, ok) ==
    Call("fetchCategories", ok, [list |-> getCategories(categoryDB), sel |-> sel])

\* handleSelectCategory (App.tsx 120-135) up to its await, followed by the two
\* effects the new selection triggers: fetchMenuItems (113-118, 96-107) and
\* fetchCategories (109-111).
SelectCategory(id, ok1, ok2, ok3) ==
    /\ viewCategoryList /\ UserCanStart
    /\ MapHas(categories, id)
    /\ selectedCategory' = id
    /\ loading' = TRUE
    /\ timers' = timers \o << Call("selectCategory", ok1, getMenuItems(menuItemDB, id)),
                              Call("fetchMenuItems", ok2, getMenuItems(menuItemDB, id)),
                              EffectFetchCategories(id, ok3) >>
    /\ UNCHANGED <<otherVars, dialogVars, now, storageVars, categories, menuItems, isUploading, isExporting,
                   toast, up, exported, im>>

\* handleSelectCategory after its await (App.tsx 126-134).
SelectCategoryDone ==
    /\ Fires("selectCategory")
    /\ LET c == timers[1] IN
       /\ now' = Later(c.due)
       /\ timers' = Tail(timers)
       /\ loading' = FALSE
       /\ IF c.ok
          THEN menuItems' = c.data /\ UNCHANGED toast
          ELSE toast' = Toast("error", "Failed to fetch menu items for category.", 0, 0)
               /\ UNCHANGED menuItems
    /\ UNCHANGED <<otherVars, dialogVars, storageVars, categories, selectedCategory, isUploading, isExporting,
                   up, exported, im>>

\* fetchMenuItems after its await (App.tsx 100-106).
FetchMenuItemsDone ==
    /\ Fires("fetchMenuItems")
    /\ LET c == timers[1] IN
       /\ now' = Later(c.due)
       /\ timers' = Tail(timers)
       /\ IF c.ok
          THEN menuItems' = c.data /\ UNCHANGED toast
          ELSE toast' = Toast("error", "Failed to fetch menu items.", 0, 0)
               /\ UNCHANGED menuItems
    /\ UNCHANGED <<otherVars, dialogVars, storageVars, categories, selectedCategory, loading, isUploading,
                   isExporting, up, exported, im>>

\* handleBackToCategories (App.tsx 74-77) and the fetchCategories effect the
\* cleared selection triggers.
BackToCategories(ok) ==
    /\ viewItemList /\ ItemViewCanStart
    /\ selectedCategory' = Null
    /\ menuItems' = <<>>
    /\ loading' = TRUE
    /\ timers' = Append(timers, EffectFetchCategories(Null, ok))
    /\ UNCHANGED <<otherVars, dialogVars, now, storageVars, categories, isUploading, isExporting, toast, up,
                   exported, im>>

\* A dialog is one click further from the mount than the list below it.
DialogCanStart == now < Horizon + SimulateDelay

\* handleDeleteCategory (App.tsx 154-178): the confirmation dialog opens, and
\* deleteAction holds a closure over the categories of the render that handled
\* the click.  In the category list selectedCategory is null, so lines 163-165
\* of the closure do nothing.
DeleteCategory(id) ==
    /\ viewCategoryList /\ UserCanStart
    /\ MapHas(categories, id)
    /\ deleteAction' = [id |-> id, originalCategories |-> categories]
    /\ isConfirmModalOpen' = TRUE
    /\ UNCHANGED <<otherVars, now, storageVars, timers, categories, menuItems, selectedCategory, loading,
                   isUploading, isExporting, toast, up, exported, im, isCategoryModalOpen>>

\* onClose of the confirmation dialog (App.tsx 744).
CancelDelete ==
    /\ isConfirmModalOpen /\ ~overlay
    /\ isConfirmModalOpen' = FALSE
    /\ UNCHANGED <<otherVars, now, storageVars, timers, categories, menuItems, selectedCategory, loading,
                   isUploading, isExporting, toast, up, exported, im, isCategoryModalOpen,
                   deleteAction>>

\* onConfirm of the confirmation dialog (App.tsx 745-750) running the closure
\* of handleDeleteCategory (160-175) up to the promise: the optimistic removal
\* from the current list and the call.  deleteCategory throws "Category not
\* found" before changing anything (mockApiService 179-181), and the catch
\* then puts back originalCategories in the same task; otherwise it deletes
\* the category and its items at once and then waits.  `shown` and `alone`
\* are history, read by the properties only: the list on screen before the
\* removal, and whether no other call was pending.
ConfirmDelete(ok) ==
    /\ isConfirmModalOpen /\ ~overlay /\ DialogCanStart
    /\ deleteAction # Null
    /\ isConfirmModalOpen' = FALSE
    /\ IF ~MapHas(categoryDB, deleteAction.id)
       THEN /\ toast' = Toast("error", "Failed to delete category. Restoring...", 0, 0)
            /\ categories' = deleteAction.originalCategories
            /\ UNCHANGED <<timers, storageVars>>
       ELSE /\ categories' = SelectSeq(categories, LAMBDA c : c.id # deleteAction.id)
            /\ timers' = Append(timers,
                                Call("deleteCategory", ok,
                                     [id |-> deleteAction.id,
                                      originalCategories |-> deleteAction.originalCategories,
                                      shown |-> categories, alone |-> timers = <<>>]))
            /\ IF ok
               THEN /\ categoryDB' = MapDelete(categoryDB, deleteAction.id)
                    /\ menuItemDB' = deleteCategoryItems(menuItemDB, deleteAction.id)
               ELSE UNCHANGED storageVars
            /\ UNCHANGED toast
    /\ UNCHANGED <<otherVars, now, menuItems, selectedCategory, loading, isUploading, isExporting,
                   up, exported, im, isCategoryModalOpen, deleteAction>>

\* The then / catch of the closure (App.tsx 167-174).
DeleteCategoryDone ==
    /\ Fires("deleteCategory")
    /\ LET c == timers[1] IN
       /\ now' = Later(c.due)
       /\ timers' = Tail(timers)
       /\ IF c.ok
          THEN /\ toast' = Toast("success", "Category deleted successfully!", 0, 0)
               /\ UNCHANGED categories
          ELSE /\ toast' = Toast("error", "Failed to delete category. Restoring...", 0, 0)
               /\ categories' = c.data.originalCategories
    /\ UNCHANGED <<otherVars, dialogVars, storageVars, menuItems, selectedCategory, loading, isUploading,
                   isExporting, up, exported, im>>

\* ------------------------------------------- the category form (App.tsx 137-152)
\* What the form submits (CategoryList.tsx 212-215, 233): a name, and the
\* sort order, 10 unless the user changes it.
FormName == <<"S","o","u","p","s">>
FormCategories == {[name |-> FormName, sortOrder |-> 10]}

\* onAddCategory (App.tsx 708)
OpenCategoryModal ==
    /\ viewCategoryList /\ UserCanStart
    /\ isCategoryModalOpen' = TRUE
    /\ UNCHANGED <<otherVars, now, storageVars, timers, categories, menuItems, selectedCategory, loading,
                   isUploading, isExporting, toast, up, exported, im, isConfirmModalOpen,
                   deleteAction>>

\* onClose of the category form (App.tsx 725)
CloseCategoryModal ==
    /\ isCategoryModalOpen /\ ~overlay
    /\ isCategoryModalOpen' = FALSE
    /\ UNCHANGED <<otherVars, now, storageVars, timers, categories, menuItems, selectedCategory, loading,
                   isUploading, isExporting, toast, up, exported, im, isConfirmModalOpen,
                   deleteAction>>

\* handleSaveCategory for a new category (App.tsx 137-143) up to `await
\* api.addCategory`.  The form stays open until the handler has ended, so it
\* can be submitted again; dt is the time in milliseconds since the last
\* event.  The mock stores the category when called.
SaveCategory(categoryData, dt, ok) ==
    /\ isCategoryModalOpen /\ ~overlay /\ DialogCanStart
    /\ Len(timers) < MaxPending
    /\ now' = now + dt
    /\ timers' = Append(timers, [k |-> "saveCategory", due |-> now + dt + SimulateDelay,
                                 ok |-> ok, data |-> NewCategory(categoryData, now + dt)])
    /\ categoryDB' = IF ok THEN addCategory(categoryDB, categoryData, now + dt) ELSE categoryDB
    /\ UNCHANGED <<otherVars, dialogVars, menuItemDB, categories, menuItems, selectedCategory, loading,
                   isUploading, isExporting, toast, up, exported, im>>

\* handleSaveCategory after `await api.addCategory` (App.tsx 144-146, 79-82)
\* up to the await of fetchCategories, or its catch (149-151).
SaveCategoryDone(ok) ==
    /\ Fires("saveCategory")
    /\ LET c == timers[1]
           t == Later(c.due)
       IN
       /\ now' = t
       /\ IF c.ok
          THEN /\ toast' = Toast("success", "Category added successfully!", 0, 0)
               /\ loading' = TRUE
               /\ timers' = Append(Tail(timers),
                                   [k |-> "saveFetchCategories", due |-> t + SimulateDelay,
                                    ok |-> ok,
                                    data |-> [list |-> getCategories(categoryDB), sel |-> Null]])
          ELSE /\ toast' = Toast("error", "Failed to save category.", 0, 0)
               /\ timers' = Tail(timers)
               /\ UNCHANGED loading
    /\ UNCHANGED <<otherVars, dialogVars, storageVars, categories, menuItems, selectedCategory,
                   isUploading, isExporting, up, exported, im>>

\* fetchCategories after its await inside handleSaveCategory (App.tsx 83-92),
\* then the form is closed (147-148).
SaveFetchCategoriesDone ==
    /\ Fires("saveFetchCategories")
    /\ LET c == timers[1] IN
       /\ now' = Later(c.due)
       /\ timers' = Tail(timers)
       /\ loading' = FALSE
       /\ isCategoryModalOpen' = FALSE
       /\ IF c.ok
          THEN categories' = c.data.list /\ UNCHANGED toast
          ELSE toast' = Toast("error", "Failed to fetch categories.", 0, 0)
               /\ UNCHANGED categories
    /\ UNCHANGED <<otherVars, storageVars, menuItems, selectedCategory, isUploading, isExporting, up,
                   exported, im, isConfirmModalOpen, deleteAction>>


\* ------------------------------------------- handleExcelUpload (App.tsx 254-375)
\* The cells a row of the sheet can hold in the columns the handler reads.
Drinks == <<"D","r","i","n","k","s">>
Tacos == <<"T","a","c","o","s">>
Taco == <<"T","a","c","o">>
NA == <<"N","/","A">>

CategoryCells == {Undefined, ToLowerCase(Appetizers), Drinks, ToLowerCase(Drinks)}
PriceCells == {Undefined, <<"0">>, <<"-","5">>, <<"a","b","c">>, <<"5",".","5","0">>,
               <<"5","a","b","c">>}
NameCells == {Undefined, Taco}
SheetRows == [cat : CategoryCells, price : PriceCells, name : NameCells]

\* new Map(categories.map(c => [c.name.toLowerCase(), c.id])): of two entries
\* with the same key the later one stays.
NameToIdMap(cats) ==
    LET keys == {ToLowerCase(cats[i].name) : i \in DOMAIN cats}
        last(key) == CHOOSE i \in DOMAIN cats :
                        /\ ToLowerCase(cats[i].name) = key
                        /\ \A j \in DOMAIN cats : ToLowerCase(cats[j].name) = key => j <= i
    IN  [key \in keys |-> cats[last(key)].id]

\* A faulty Map.set that stores nothing: the handler would not remember the
\* category it has just created.
NameToIdForget(map, key, id) == map

\* A faulty Map.set that drops the entries the mapping held.
NameToIdOnly(map, key, id) == [k \in {key} |-> id]

\* Map.prototype.set
NameToIdSet(map, key, id) == [k \in DOMAIN map \cup {key} |-> IF k = key THEN id ELSE map[k]]

\* What the specification calls a valid row, read off the cells and not off the
\* handler: a category name, a non-empty item name, and a price that is a
\* decimal numeral (digits with at most one point, an optional sign) above zero.
IsNumeral(s) ==
    /\ s # Undefined /\ s # <<>>
    /\ LET body == IF s[1] \in {"-", "+"} THEN Tail(s) ELSE s IN
       /\ \A i \in DOMAIN body : IsDigit(body[i]) \/ body[i] = "."
       /\ \E i \in DOMAIN body : IsDigit(body[i])
       /\ Cardinality({i \in DOMAIN body : body[i] = "."}) <= 1
PositiveNumeral(s) ==
    /\ IsNumeral(s)
    /\ s[1] # "-"
    /\ \E i \in DOMAIN s : IsDigit(s[i]) /\ s[i] # "0"
WellFormedRow(row) == Truthy(row.cat) /\ Truthy(row.name) /\ PositiveNumeral(row.price)

\* What the row that ended an iteration was (history, read by the properties
\* only): whether its price cell was a positive numeral, whether the row was
\* valid.
RowSeen(row) == [priceOk |-> PositiveNumeral(row.price), valid |-> WellFormedRow(row)]

\* A faulty error branch that pushes the message without counting the row.
UpRowErrorUncounted(u, row, reason) ==
    [u EXCEPT !.errors = Append(@, [item |-> NA, reason |-> reason]),
              !.i = @ + 1,
              !.pc = "loop",
              !.row = Null,
              !.last = RowSeen(row)]

\* A faulty error branch that counts the row and gives up the rest of the sheet.
UpRowErrorAbort(u, row, reason) ==
    [u EXCEPT !.errorCount = @ + 1,
              !.errors = Append(@, [item |-> NA, reason |-> reason]),
              !.i = u.nRows,
              !.pc = "loop",
              !.row = Null,
              !.last = RowSeen(row)]

\* errorCount++; errors.push(...); continue
UpRowError(u, row, reason) ==
    [u EXCEPT !.errorCount = @ + 1,
              !.errors = Append(@, [item |-> IF reason = "Missing Item Name" THEN <<>>
                                             ELSE IF Truthy(row.name) THEN row.name ELSE NA,
                                    reason |-> reason]),
              !.i = @ + 1,
              !.pc = "loop",
              !.row = Null,
              !.last = RowSeen(row)]

\* One loop iteration from `const price = parseFloat(row['Price'])` to its end
\* (App.tsx 305-344), the category id of the row being known.  The rows of the
\* model have no 'Available' cell, so availabilityFlag (App.tsx 321) is false.
UpRowTail(u, row, categoryId) ==
    LET price == ParseFloat(row.price)
        name == StringOrEmpty(row.name)
    IN  IF InvalidPrice(price) THEN UpRowError(u, row, "Invalid or missing Price")
        ELSE IF name = <<>> THEN UpRowError(u, row, "Missing Item Name")
        ELSE [u EXCEPT !.newItems = Append(@, [name |-> name, description |-> <<>>,
                                               price |-> price.val,
                                               categoryId |-> categoryId,
                                               availabilityFlag |-> FALSE]),
                       !.itemCells = Append(@, row.cat),
                       !.successCount = @ + 1,
                       !.i = @ + 1,
                       !.pc = "loop",
                       !.row = Null,
                       !.last = RowSeen(row)]

\* handleExcelUpload up to reader.readAsArrayBuffer (App.tsx 255-257, 369).  The
\* onload closure keeps the categories of the render that called the handler.
UploadStart ==
    /\ viewCategoryList /\ UserCanStart
    /\ up.pc \in {"idle", "done"}
    /\ isUploading' = TRUE
    /\ up' = [pc |-> "reading", cats |-> categories]
    /\ UNCHANGED <<otherVars, dialogVars, now, storageVars, timers, categories, menuItems, selectedCategory,
                   loading, isExporting, toast, exported, im>>

\* reader.onload up to the loop (App.tsx 259-273): XLSX.read throws on a file
\* that is no workbook, otherwise the sheet has nRows rows.
UploadOnload(readable, nRows) ==
    /\ up.pc = "reading"
    /\ IF readable
       THEN /\ up' = [pc |-> "loop", cats |-> up.cats, nRows |-> nRows, i |-> 0,
                      newItems |-> <<>>, successCount |-> 0, errorCount |-> 0,
                      errors |-> <<>>,
                      map |-> NameToIdMap(up.cats),
                      newCategoriesCreated |-> 0,
                      initialCategoryCount |-> Len(up.cats),
                      row |-> Null, batchOk |-> TRUE,
                      last |-> [priceOk |-> TRUE, valid |-> TRUE],
                      \* history, read by the properties only
                      created |-> <<>>, itemCells |-> <<>>, shown |-> <<>>,
                      allValid |-> TRUE, rejections |-> 0,
                      itemsBefore |-> menuItemDB, categoriesBefore |-> categoryDB]
            /\ UNCHANGED <<isUploading, toast>>
       ELSE /\ up' = [pc |-> "done", cats |-> up.cats, nRows |-> 0, i |-> 0,
                      newItems |-> <<>>, successCount |-> 0, errorCount |-> 0,
                      errors |-> <<>>, map |-> NameToIdMap(up.cats),
                      newCategoriesCreated |-> 0, initialCategoryCount |-> Len(up.cats),
                      row |-> Null, batchOk |-> TRUE,
                      last |-> [priceOk |-> TRUE, valid |-> TRUE], created |-> <<>>, itemCells |-> <<>>,
                      allValid |-> TRUE, rejections |-> 0,
                      shown |-> << Toast("error", "Failed to process the Excel file.", 0, 0) >>,
                      itemsBefore |-> menuItemDB, categoriesBefore |-> categoryDB]
            /\ toast' = Toast("error", "Failed to process the Excel file.", 0, 0)
            /\ isUploading' = FALSE
    /\ UNCHANGED <<otherVars, dialogVars, now, storageVars, timers, categories, menuItems, selectedCategory,
                   loading, isExporting, exported, im>>

\* One iteration of `for (const row of json)` up to its end or up to
\* `await api.addCategory` (App.tsx 275-293).  The row is read from the sheet
\* when the loop reaches it.
UploadRow(row, ok) ==
    /\ up.pc = "loop" /\ up.i < up.nRows
    /\ LET key == ToLowerCase(row.cat)
           data == [name |-> row.cat,
                    sortOrder |-> up.initialCategoryCount + up.newCategoriesCreated]
           u == [up EXCEPT !.row = row, !.allValid = @ /\ WellFormedRow(row)]
       IN
       IF ~Truthy(row.cat)
       THEN /\ up' = UpRowError(u, row, "Missing Category Name")
            /\ UNCHANGED <<categoryDB, timers>>
       ELSE IF key \in DOMAIN up.map
       THEN /\ up' = UpRowTail(u, row, up.map[key])
            /\ UNCHANGED <<categoryDB, timers>>
       ELSE /\ up' = [u EXCEPT !.pc = "addCategory",
                               !.rejections = IF ok THEN @ ELSE @ + 1]
            /\ timers' = Append(timers, Call("upAddCategory", ok, NewCategory(data, now)))
            /\ IF ok THEN categoryDB' = addCategory(categoryDB, data, now)
                     ELSE UNCHANGED categoryDB
    /\ UNCHANGED <<otherVars, dialogVars, now, menuItemDB, categories, menuItems, selectedCategory, loading,
                   isUploading, isExporting, toast, exported, im>>

\* The rest of the iteration after `await api.addCategory` (App.tsx 294-344).
UploadAddCategoryDone ==
    /\ Fires("upAddCategory")
    /\ LET c == timers[1]
           newCategory == c.data
       IN
       /\ now' = Later(c.due)
       /\ timers' = Tail(timers)
       /\ IF c.ok
          THEN up' = UpRowTail(
                        [up EXCEPT !.map = NameToIdSet(@, ToLowerCase(newCategory.name),
                                                       newCategory.id),
                                   !.newCategoriesCreated = @ + 1,
                                   !.created = Append(@, newCategory)],
                        up.row, newCategory.id)
          ELSE up' = UpRowError(up, up.row, "Failed to auto-create category")
    /\ UNCHANGED <<otherVars, dialogVars, storageVars, categories, menuItems, selectedCategory, loading,
                   isUploading, isExporting, toast, exported, im>>

\* The upload summary (App.tsx 351-354) and the call of fetchCategories
\* (App.tsx 357, 80-82).
UpSummary(u) ==
    IF u.successCount = 0 /\ u.errorCount = 0
    THEN Toast("success", "No items found in file.", 0, 0)
    ELSE Toast(IF u.errorCount > 0 THEN "error" ELSE "success",
               "{n} items added successfully. {m} items failed.", u.successCount, u.errorCount)

\* A faulty catch that shows the summary of the loop, as if the batch had been
\* stored.
UpCatchCounted(u) == UpSummary(u)

\* The catch of the onload handler (App.tsx 362-364).
UpCatchToast(u) == Toast("error", "Failed to process the Excel file.", 0, 0)

\* After the loop (App.tsx 347-357) when there is nothing to submit, or up to
\* `await api.addMenuItemsBatch(newItems)` when there is.
UploadSubmit(ok) ==
    /\ up.pc = "loop" /\ up.i = up.nRows
    /\ IF up.newItems # <<>>
       THEN /\ up' = [up EXCEPT !.pc = "batch", !.batchOk = ok,
                                !.rejections = IF ok THEN @ ELSE @ + 1]
            /\ timers' = Append(timers, Call("upBatch", ok, Len(up.newItems)))
            /\ IF ok THEN menuItemDB' = addMenuItemsBatch(menuItemDB, up.newItems, now)
                     ELSE UNCHANGED menuItemDB
            /\ UNCHANGED <<toast, loading>>
       ELSE /\ up' = [up EXCEPT !.pc = "fetchCategories", !.shown = Append(@, UpSummary(up)),
                                !.rejections = IF ok THEN @ ELSE @ + 1]
            /\ toast' = UpSummary(up)
            /\ loading' = TRUE
            /\ timers' = Append(timers, Call("upFetchCategories", ok,
                                             [list |-> getCategories(categoryDB), sel |-> Null]))
            /\ UNCHANGED menuItemDB
    /\ UNCHANGED <<otherVars, dialogVars, now, categoryDB, categories, menuItems, selectedCategory, isUploading,
                   isExporting, exported, im>>

\* After `await api.addMenuItemsBatch` (App.tsx 351-357), or the catch and
\* finally of the onload handler when the call is rejected (App.tsx 362-367).
UploadBatchDone(ok) ==
    /\ Fires("upBatch")
    /\ LET c == timers[1] IN
       /\ now' = Later(c.due)
       /\ IF c.ok
          THEN /\ up' = [up EXCEPT !.pc = "fetchCategories", !.shown = Append(@, UpSummary(up)),
                                   !.rejections = IF ok THEN @ ELSE @ + 1]
               /\ toast' = UpSummary(up)
               /\ loading' = TRUE
               /\ timers' = Append(Tail(timers),
                                   [k |-> "upFetchCategories", due |-> Later(c.due) + SimulateDelay,
                                    ok |-> ok,
                                    data |-> [list |-> getCategories(categoryDB), sel |-> Null]])
               /\ UNCHANGED isUploading
          ELSE /\ up' = [up EXCEPT !.pc = "done", !.shown = Append(@, UpCatchToast(up))]
               /\ toast' = UpCatchToast(up)
               /\ isUploading' = FALSE
               /\ timers' = Tail(timers)
               /\ UNCHANGED loading
    /\ UNCHANGED <<otherVars, dialogVars, storageVars, categories, menuItems, selectedCategory, isExporting,
                   exported, im>>

\* fetchCategories after its await, inside the upload (App.tsx 83-92), then the
\* end of the handler: selectedCategory is null in the closure of a handler
\* called from the category list, so lines 358-360 do nothing; finally (366).
UploadFetchCategoriesDone ==
    /\ Fires("upFetchCategories")
    /\ LET c == timers[1]
           failed == Toast("error", "Failed to fetch categories.", 0, 0)
       IN
       /\ now' = Later(c.due)
       /\ timers' = Tail(timers)
       /\ loading' = FALSE
       /\ isUploading' = FALSE
       /\ IF c.ok
          THEN /\ categories' = c.data.list
               /\ up' = [up EXCEPT !.pc = "done"]
               /\ UNCHANGED toast
          ELSE /\ toast' = failed
               /\ up' = [up EXCEPT !.pc = "done", !.shown = Append(@, failed)]
               /\ UNCHANGED categories
    /\ UNCHANGED <<otherVars, dialogVars, storageVars, menuItems, selectedCategory, isExporting, exported, im>>


\* ------------------------------------------ handleExcelExport (App.tsx 377-432)
\* getAllMenuItems(tenant)
getAllMenuItems(db) == db

\* handleExcelExport up to `await api.getAllMenuItems` (App.tsx 378-380).
ExcelExport(ok) ==
    /\ viewCategoryList /\ UserCanStart
    /\ isExporting' = TRUE
    /\ timers' = Append(timers, Call("excelExport", ok, getAllMenuItems(menuItemDB)))
    /\ UNCHANGED <<otherVars, dialogVars, now, storageVars, categories, menuItems, selectedCategory,
                   loading, isUploading, toast, up, exported, im>>

\* handleExcelExport after its await (App.tsx 381-431): nothing to export, the
\* workbook written (XLSX.writeFile can throw), or the catch; then finally.
ExcelExportDone(written) ==
    /\ Fires("excelExport")
    /\ LET c == timers[1] IN
       /\ now' = Later(c.due)
       /\ timers' = Tail(timers)
       /\ toast' = IF ~c.ok THEN Toast("error", "Failed to export data.", 0, 0)
                   ELSE IF c.data = <<>> THEN Toast("error", "No items to export.", 0, 0)
                   ELSE IF written THEN Toast("success", "Exported successfully!", 0, 0)
                   ELSE Toast("error", "Failed to export data.", 0, 0)
       /\ isExporting' = FALSE
    /\ UNCHANGED <<otherVars, dialogVars, storageVars, categories, menuItems, selectedCategory, loading,
                   isUploading, up, exported, im>>


\* ------------------------------------ exportImportService and handleImport
\* exportToJSON (exportImportService 141-168): the envelope holds the two
\* arrays verbatim; JSON.stringify followed by JSON.parse gives back the same
\* records (only fields of the model are strings and finite numbers).  Here it
\* is applied to the full content of storage.
ExportToJSON ==
    /\ ItemViewCanStart
    /\ ~overlay
    /\ exported' = [written |-> TRUE, categories |-> getCategories(categoryDB),
                    menuItems |-> menuItemDB]
    /\ UNCHANGED <<otherVars, dialogVars, now, storageVars, timers, categories, menuItems, selectedCategory,
                   loading, isUploading, isExporting, toast, up, im>>

\* validateMenuItem / validateCategory (exportImportService 453-468): the
\* fields are present with the right type.
validateMenuItem(item) ==
    {"name", "description", "price", "categoryId"} \subseteq DOMAIN item
validateCategory(cat) == {"name"} \subseteq DOMAIN cat

\* Header rows of CSV files: the columns exportToCSV writes that the model
\* carries, and a sheet without ids.
H_ID == <<"I","D">>
H_Name == <<"N","a","m","e">>
H_Description == <<"D","e","s","c","r","i","p","t","i","o","n">>
H_Price == <<"P","r","i","c","e">>
H_CategoryID == <<"C","a","t","e","g","o","r","y"," ","I","D">>
H_CategoryName == <<"C","a","t","e","g","o","r","y"," ","N","a","m","e">>
ExportHeaders == <<H_ID, H_Name, H_Description, H_Price, H_CategoryID, H_CategoryName>>
PlainHeaders == <<H_Name, H_CategoryName, H_Price, H_Description>>
CsvHeaders == {ExportHeaders, PlainHeaders}

\* exportToCSV (exportImportService 82-136): the header row and one row per
\* item, whatever the number of items; the file is always downloaded.
exportToCSV(items, cats) == [written |-> TRUE, headers |-> ExportHeaders, rows |-> items]

\* A faulty handleExport that takes the items out of the list it is given.
ExportDraining ==
    /\ viewItemList /\ ItemViewCanStart
    /\ download' = exportToCSV(menuItems, categories)
    /\ menuItems' = <<>>
    /\ toast' = Toast("success", "Export completed successfully!", 0, 0)
    /\ UNCHANGED <<dialogVars, trial, now, storageVars, timers,
                   categories, selectedCategory, loading, isUploading, isExporting,
                   up, exported, im>>

\* handleExport (App.tsx 524-538) with the export options of App.tsx 56-60,
\* which nothing changes: format csv.  No filter is set, so the items are
\* menuItems (528).  exportToCSV awaits nothing, so the handler ends in the
\* task that started it.
Export ==
    /\ viewItemList /\ ItemViewCanStart
    /\ download' = exportToCSV(menuItems, categories)
    /\ toast' = Toast("success", "Export completed successfully!", 0, 0)
    /\ UNCHANGED <<dialogVars, trial, now, storageVars, timers,
                   categories, menuItems, selectedCategory, loading, isUploading, isExporting,
                   up, exported, im>>

Tasty == <<"T","a","s","t","y">>
\* The fields of a data line, by column: a full line whose category id is in
\* storage, is not in storage, or is empty; a line without a name; a line with
\* price 0.
FullLine == [ID |-> <<>>, Name |-> Taco, Description |-> Tasty,
             Price |-> <<"5",".","5","0">>, CategoryID |-> CatId(1), CategoryName |-> Tacos]
CsvCells ==
    {FullLine,
     [FullLine EXCEPT !.CategoryID = CatId(9)],
     [FullLine EXCEPT !.CategoryID = <<>>],
     [FullLine EXCEPT !.Name = <<>>],
     [FullLine EXCEPT !.Price = <<"0">>]}
\* The values parseCSVLine returns for a full line, and for a line cut after
\* its first field.
LineValues(headers, cells) ==
    IF headers = ExportHeaders
    THEN <<cells.ID, cells.Name, cells.Description, cells.Price, cells.CategoryID,
           cells.CategoryName>>
    ELSE <<cells.Name, cells.CategoryName, cells.Price, cells.Description>>
CsvLines(headers) ==
    {LineValues(headers, c) : c \in CsvCells} \cup {<<Taco>>}

RandomIds == {<<"rnd", k>> : k \in 1..MaxRandomIds}

\* headers.findIndex(h => h.toLowerCase().includes(header.toLowerCase()))
\* (exportImportService 413): the position of the first header that contains
\* `header`, case ignored, 0 when there is none.
findIndex(headers, header) ==
    LET hits == {i \in DOMAIN headers :
                    Includes(ToLowerCase(headers[i]), ToLowerCase(header))}
    IN  IF hits = {} THEN 0 ELSE CHOOSE i \in hits : \A j \in hits : i <= j

\* findIndex for the header rows and the column names the reader asks for,
\* worked out once.
ColumnIndex ==
    [h \in CsvHeaders |->
        [header \in {H_Name, H_Description, H_Price, H_CategoryID} |-> findIndex(h, header)]]

\* getValue (exportImportService 412-415): the value under that header; ''
\* when there is none; undefined when the line is shorter.
getValue(values, headers, header) ==
    IF ColumnIndex[headers][header] = 0 THEN <<>>
    ELSE IF ColumnIndex[headers][header] <= Len(values)
    THEN values[ColumnIndex[headers][header]]
    ELSE Undefined

\* createMenuItemFromCSV (exportImportService 417-447) once the cells are
\* read: "throw" when .replace is called on undefined, "null" when name or
\* description is empty, else the item.  `parsed` is parseFloat of the price
\* cell (|| 0 maps NaN to 0), rnd the string generateId returns.  The `id` of
\* the result is left out: addMenuItem overwrites it and nothing else reads it.
\* The header rows of the model have no 'Availability Flag' column, so getValue
\* gives '' for it and availabilityFlag (435) is false.
MenuItemFromCells(rawName, rawDescription, parsed, rawCategory, rnd) ==
    IF rawName = Undefined \/ rawDescription = Undefined THEN [tag |-> "throw"]
    ELSE IF StripQuotes(rawName) = <<>> \/ StripQuotes(rawDescription) = <<>>
    THEN [tag |-> "null"]
    ELSE [tag |-> "item",
          item |-> [name |-> StripQuotes(rawName),
                    description |-> StripQuotes(rawDescription),
                    price |-> IF parsed.nan THEN 0 ELSE parsed.val,
                    categoryId |-> IF Truthy(rawCategory) THEN rawCategory ELSE rnd,
                    availabilityFlag |-> FALSE]]

\* createMenuItemFromCSV (exportImportService 411-448)
createMenuItemFromCSV(values, headers, rnd) ==
    MenuItemFromCells(getValue(values, headers, H_Name),
                      getValue(values, headers, H_Description),
                      ParseFloat(getValue(values, headers, H_Price)),
                      getValue(values, headers, H_CategoryID), rnd)

\* The loop of importFromCSV (exportImportService 254-276) over the data
\* lines: the items pushed and the number of errors pushed.
PushItem(items, r) == IF r.tag = "item" THEN Append(items, r.item) ELSE items
RECURSIVE csvItems(_, _, _)
csvItems(lines, headers, rnds) ==
    IF lines = <<>> THEN <<>>
    ELSE PushItem(csvItems(SubSeq(lines, 1, Len(lines) - 1), headers, rnds),
                  createMenuItemFromCSV(lines[Len(lines)], headers, rnds[Len(lines)]))
csvErrors(lines, headers, rnds) ==
    Cardinality({i \in DOMAIN lines :
                    createMenuItemFromCSV(lines[i], headers, rnds[i]).tag = "throw"})

\* The ImportResult of importFromCSV (exportImportService 278-283).
CsvResult(items, errors) ==
    [success |-> Len(items) > 0, importedItems |-> items, importedCategories |-> <<>>,
     message |-> Toast("error", "Successfully imported {n} items with {m} errors",
                       Len(items), errors)]

\* importFromCSV (exportImportService 245-287)
importFromCSV(file) ==
    CsvResult(csvItems(file.lines, file.headers, file.rnds),
              csvErrors(file.lines, file.headers, file.rnds))

\* The ImportResult of importFromJSON (exportImportService 310-316).
JsonResult(items, cats) ==
    [success |-> Len(items) > 0 \/ Len(cats) > 0,
     importedItems |-> items, importedCategories |-> cats,
     message |-> Toast("error", "Successfully imported {n} items and {m} categories",
                       Len(items), Len(cats))]

\* A faulty importFromJSON that answers text that is no JSON with one category
\* made up from it.
importFromJSONLenient(file) ==
    IF ~file.parseable
    THEN JsonResult(<<>>, << [name |-> <<"?">>, sortOrder |-> 0] >>)
    ELSE JsonResult(SelectSeq(file.data.menuItems, validateMenuItem),
                    SelectSeq(file.data.categories, validateCategory))

\* importFromJSON (exportImportService 292-328): JSON.parse throws on text that
\* is no JSON.
importFromJSON(file) ==
    IF ~file.parseable
    THEN [success |-> FALSE, importedItems |-> <<>>, importedCategories |-> <<>>,
          message |-> Toast("error", "Failed to parse JSON file", 0, 0)]
    ELSE JsonResult(SelectSeq(file.data.menuItems, validateMenuItem),
                    SelectSeq(file.data.categories, validateCategory))

\* importData (exportImportService 53-77): by file extension.
importData(file) ==
    IF file.ext = "csv" THEN importFromCSV(file)
    ELSE IF file.ext = "json" THEN importFromJSON(file)
    ELSE [success |-> FALSE, importedItems |-> <<>>, importedCategories |-> <<>>,
          message |-> Toast("error", "Unsupported file format", 0, 0)]

\* The files the user can pick: CSV text of up to MaxRows data lines, text
\* that is no JSON, the file exportToJSON wrote, a file of another type; and
\* what importData makes of each.
CsvFiles(h) ==
    {[ext |-> "csv", headers |-> h, lines |-> ls, rnds |-> rs, fromExport |-> FALSE] :
        ls \in UNION {[1..n -> CsvLines(h)] : n \in 0..MaxRows},
        rs \in [1..MaxRows -> RandomIds]}
\* A data line the specification calls valid: every field present, name and
\* description not empty, the price a positive numeral.
WellFormedLine(values, headers) ==
    /\ Len(values) = Len(headers)
    /\ getValue(values, headers, H_Name) # <<>>
    /\ getValue(values, headers, H_Description) # <<>>
    /\ PositiveNumeral(getValue(values, headers, H_Price))

\* What importData answers for a file, with what the file was.
Read(file) ==
    [ext |-> file.ext, fromExport |-> file.fromExport,
     nLines |-> IF file.ext = "csv" THEN Len(file.lines) ELSE 0,
     allValid |-> /\ file.ext = "csv"
                  /\ \A i \in DOMAIN file.lines : WellFormedLine(file.lines[i], file.headers),
     result |-> importData(file)]
OtherFile == [ext |-> "txt", fromExport |-> FALSE]
CsvReads == {Read(f) : f \in UNION {CsvFiles(h) : h \in CsvHeaders}}
ImportReads ==
    CsvReads
    \cup {Read([ext |-> "json", parseable |-> FALSE, fromExport |-> FALSE])}
    \cup (IF exported.written
          THEN {Read([ext |-> "json", parseable |-> TRUE, fromExport |-> TRUE,
                      data |-> [categories |-> exported.categories,
                                menuItems |-> exported.menuItems]])}
          ELSE {})

ImSuccessItems(n) == Toast("success", "Successfully imported {n} items", n, 0)
ImSuccessCategories(n) == Toast("success", "Successfully imported {n} categories", n, 0)
ImFailed == Toast("error", "Import failed", 0, 0)

\* The locals of a handleImport run once importData has answered, with the
\* record of what the run met and did.
ImLocals(sel, read) ==
    [pc |-> "reading", sel |-> sel, k |-> 0,
     items |-> read.result.importedItems, cats |-> read.result.importedCategories,
     ext |-> read.ext, fromExport |-> read.fromExport,
     allValid |-> read.allValid, nLines |-> read.nLines,
     itemCalls |-> 0, rejections |-> 0, shown |-> <<>>,
     itemsBefore |-> menuItemDB, categoriesBefore |-> categoryDB]

\* The end of handleImport: finally (App.tsx 566-568).
ImFinally(m) ==
    /\ im' = [m EXCEPT !.pc = "done"]
    /\ isUploading' = FALSE

\* The answer of importData is a failure (App.tsx 561-563, 566-568).
ImRejected(sel, read) ==
    /\ toast' = read.result.message
    /\ ImFinally([ImLocals(sel, read) EXCEPT !.shown = <<read.result.message>>])

\* handleImport (App.tsx 540-543) up to `await importData(file)`, whose
\* FileReader has not read the file yet.  sel is the selectedCategory of the
\* closure.  A file of another type is answered without a reader (importData
\* 72-76, App.tsx 562, 567).
ImportStart(known) ==
    /\ viewItemList /\ ItemViewCanStart
    /\ im.pc \in {"idle", "done"}
    /\ IF known
       THEN /\ isUploading' = TRUE
            /\ im' = [pc |-> "reading", sel |-> selectedCategory]
            /\ UNCHANGED toast
       ELSE ImRejected(selectedCategory, Read(OtherFile))
    /\ UNCHANGED <<otherVars, dialogVars, now, storageVars, timers, categories, menuItems, selectedCategory,
                   loading, isExporting, up, exported>>

\* One `await api.addMenuItem(item)` of the loop of App.tsx 548-550, made at
\* time t with q the timers then pending: the mock stores the item when called
\* and resolves after the delay.
ImAddMenuItem(m, k, ok, t, q) ==
    /\ im' = [m EXCEPT !.pc = "addMenuItem", !.k = k, !.itemCalls = @ + 1,
                       !.rejections = IF ok THEN @ ELSE @ + 1]
    /\ timers' = Append(q, [k |-> "imAddMenuItem", due |-> t + SimulateDelay,
                                 ok |-> ok, data |-> k])
    /\ menuItemDB' = IF ok THEN addMenuItem(menuItemDB, m.items[k], t) ELSE menuItemDB
    /\ UNCHANGED categoryDB

\* One `await api.addCategory(category)` of the loop of App.tsx 556-558.
ImAddCategory(m, k, ok, t, q) ==
    /\ im' = [m EXCEPT !.pc = "addCategory", !.k = k,
                       !.rejections = IF ok THEN @ ELSE @ + 1]
    /\ timers' = Append(q, [k |-> "imAddCategory", due |-> t + SimulateDelay,
                                 ok |-> ok, data |-> k])
    /\ categoryDB' = IF ok THEN addCategory(categoryDB, m.cats[k], t) ELSE categoryDB
    /\ UNCHANGED menuItemDB

\* The FileReader's onload inside importData and handleImport after its first
\* await (App.tsx 545-550, 554-558, 561-563).
ImportOnload(read, ok) ==
    /\ im.pc = "reading"
    /\ IF ~read.result.success
       THEN /\ ImRejected(im.sel, read)
            /\ UNCHANGED <<storageVars, timers>>
       ELSE IF read.result.importedItems # <<>>
       THEN ImAddMenuItem(ImLocals(im.sel, read), 1, ok, now, timers)
            /\ UNCHANGED <<toast, isUploading>>
       ELSE ImAddCategory(ImLocals(im.sel, read), 1, ok, now, timers)
            /\ UNCHANGED <<toast, isUploading>>
    /\ UNCHANGED <<otherVars, dialogVars, now, categories, menuItems, selectedCategory, loading, isExporting,
                   up, exported>>

\* After one `await api.addMenuItem(item)`: the next item, or past the loop the
\* toast and fetchMenuItems up to its await (App.tsx 551-552, 96-99), or the
\* catch when the call was rejected (564-568).
ImportAddMenuItemDone(ok) ==
    /\ Fires("imAddMenuItem")
    /\ LET c == timers[1]
           t == Later(c.due)
       IN
       /\ now' = t
       /\ IF ~c.ok
          THEN /\ toast' = ImFailed
               /\ ImFinally([im EXCEPT !.shown = Append(@, ImFailed)])
               /\ timers' = Tail(timers)
               /\ UNCHANGED storageVars
          ELSE IF im.k < Len(im.items)
          THEN /\ ImAddMenuItem(im, im.k + 1, ok, t, Tail(timers))
               /\ UNCHANGED <<toast, isUploading>>
          ELSE /\ toast' = ImSuccessItems(Len(im.items))
               /\ im' = [im EXCEPT !.pc = "fetchMenuItems",
                                   !.shown = Append(@, ImSuccessItems(Len(im.items))),
                                   !.rejections = IF ok THEN @ ELSE @ + 1]
               /\ timers' = Append(Tail(timers),
                                   [k |-> "imFetchMenuItems", due |-> t + SimulateDelay,
                                    ok |-> ok, data |-> getMenuItems(menuItemDB, im.sel)])
               /\ UNCHANGED <<storageVars, isUploading>>
    /\ UNCHANGED <<otherVars, dialogVars, categories, menuItems, selectedCategory, loading, isExporting, up, exported>>

\* fetchMenuItems after its await inside the import (App.tsx 100-106), then
\* the categories of the file (554-558) or the end of the handler.
ImportFetchMenuItemsDone(ok) ==
    /\ Fires("imFetchMenuItems")
    /\ LET c == timers[1]
           t == Later(c.due)
           failed == Toast("error", "Failed to fetch menu items.", 0, 0)
           m == IF c.ok THEN im ELSE [im EXCEPT !.shown = Append(@, failed)]
       IN
       /\ now' = t
       /\ IF c.ok THEN menuItems' = c.data /\ UNCHANGED toast
                  ELSE toast' = failed /\ UNCHANGED menuItems
       /\ IF im.cats # <<>>
          THEN ImAddCategory(m, 1, ok, t, Tail(timers)) /\ UNCHANGED isUploading
          ELSE /\ ImFinally(m)
               /\ timers' = Tail(timers)
               /\ UNCHANGED storageVars
    /\ UNCHANGED <<otherVars, dialogVars, categories, selectedCategory, loading, isExporting, up, exported>>

\* After one `await api.addCategory(category)`: the next category, or past the
\* loop the toast and fetchCategories up to its await (App.tsx 559-560, 79-82),
\* or the catch when the call was rejected (564-568).
ImportAddCategoryDone(ok) ==
    /\ Fires("imAddCategory")
    /\ LET c == timers[1]
           t == Later(c.due)
       IN
       /\ now' = t
       /\ IF ~c.ok
          THEN /\ toast' = ImFailed
               /\ ImFinally([im EXCEPT !.shown = Append(@, ImFailed)])
               /\ timers' = Tail(timers)
               /\ UNCHANGED <<storageVars, loading>>
          ELSE IF im.k < Len(im.cats)
          THEN /\ ImAddCategory(im, im.k + 1, ok, t, Tail(timers))
               /\ UNCHANGED <<toast, isUploading, loading>>
          ELSE /\ toast' = ImSuccessCategories(Len(im.cats))
               /\ im' = [im EXCEPT !.pc = "fetchCategories",
                                   !.shown = Append(@, ImSuccessCategories(Len(im.cats))),
                                   !.rejections = IF ok THEN @ ELSE @ + 1]
               /\ loading' = TRUE
               /\ timers' = Append(Tail(timers),
                                   [k |-> "imFetchCategories", due |-> t + SimulateDelay,
                                    ok |-> ok,
                                    data |-> [list |-> getCategories(categoryDB),
                                              sel |-> im.sel]])
               /\ UNCHANGED <<storageVars, isUploading>>
    /\ UNCHANGED <<otherVars, dialogVars, categories, menuItems, selectedCategory, isExporting, up, exported>>

\* fetchCategories after its await inside the import (App.tsx 83-92), then the
\* end of the handler.
ImportFetchCategoriesDone ==
    /\ Fires("imFetchCategories")
    /\ LET c == timers[1]
           failed == Toast("error", "Failed to fetch categories.", 0, 0)
       IN
       /\ now' = Later(c.due)
       /\ timers' = Tail(timers)
       /\ loading' = FALSE
       /\ IF c.ok
          THEN /\ categories' = c.data.list
               /\ IF c.data.sel # Null /\ ~MapHas(c.data.list, c.data.sel)
                  THEN selectedCategory' = Null /\ menuItems' = <<>>
                  ELSE UNCHANGED <<selectedCategory, menuItems>>
               /\ ImFinally(im)
               /\ UNCHANGED toast
          ELSE /\ toast' = failed
               /\ ImFinally([im EXCEPT !.shown = Append(@, failed)])
               /\ UNCHANGED <<categories, selectedCategory, menuItems>>
    /\ UNCHANGED <<otherVars, dialogVars, storageVars, isExporting, up, exported>>


\* ------------------------------------------- enum fields of imported items
\* The values of the enums of types.ts (10-22, 55-60).
USD == <<"U","S","D">>
EUR == <<"E","U","R">>
Currency == {USD, EUR, <<"G","B","P">>, <<"J","P","Y">>}
SpecialTypeNone == <<"N","o","n","e">>
Vegan == <<"V","e","g","a","n">>
SpecialType ==
    {SpecialTypeNone, <<"V","e","g","e","t","a","r","i","a","n">>,
     <<"N","o","n","-","V","e","g","e","t","a","r","i","a","n">>, Vegan,
     <<"C","h","e","f","'","s"," ","S","p","e","c","i","a","l">>}
Square == <<"1",":","1">>
ImageOrientation == {<<"1","6",":","9">>, <<"3",":","4">>, Square}

\* handleExcelUpload (App.tsx 316, 327, 333):
\* Object.values(E).includes(cell) ? cell : default
EnumOrDefault(cell, values, default) == IF cell \in values THEN cell ELSE default

\* createMenuItemFromCSV (exportImportService 420, 438, 443): `cell || default`,
\* where the default of specialType and imageOrientation is undefined.
CellOrDefault(cell, default) == IF Truthy(cell) THEN cell ELSE default

\* The enum cells of a row: missing, empty, members of the enum, other text.
EnumCells ==
    [currency : {Undefined, <<>>, USD, EUR, <<"X","Y","Z">>},
     specialType : {Undefined, <<>>, Vegan, <<"S","p","i","c","y">>},
     imageOrientation : {Undefined, <<>>, Square, <<"4",":","3">>}]

\* The enum fields of the item handleExcelUpload builds from a sheet row, and
\* of the item createMenuItemFromCSV builds from a CSV line, with these cells.
ConvertEnums ==
    /\ trial.pc = "cells"
    /\ trial' = [pc |-> "item", cells |-> trial.cells,
                 upload |-> [currency |-> EnumOrDefault(trial.cells.currency, Currency, USD),
                             specialType |-> EnumOrDefault(trial.cells.specialType,
                                                           SpecialType, SpecialTypeNone),
                             imageOrientation |-> EnumOrDefault(trial.cells.imageOrientation,
                                                                ImageOrientation, Square)],
                 csv |-> [currency |-> CellOrDefault(trial.cells.currency, USD),
                          specialType |-> CellOrDefault(trial.cells.specialType, Undefined),
                          imageOrientation |-> CellOrDefault(trial.cells.imageOrientation,
                                                             Undefined)]]
    /\ UNCHANGED <<dialogVars, download, now, storageVars, timers,
                   categories, menuItems, selectedCategory, loading, isUploading, isExporting,
                   toast, up, exported, im>>


\* ------------------------------------------------ the text of a CSV line
\* String(n) for a natural number.
RECURSIVE NumberText(_)
NumberText(n) ==
    IF n < 10 THEN <<Digits[n + 1]>>
    ELSE Append(NumberText(n \div 10), Digits[(n % 10) + 1])

\* String(price) for a price in hundredths: no fraction when it is zero, no
\* trailing zero in it.
PriceText(h) ==
    IF h % 100 = 0 THEN NumberText(h \div 100)
    ELSE IF h % 10 = 0 THEN NumberText(h \div 100) \o <<".">> \o NumberText((h % 100) \div 10)
    ELSE NumberText(h \div 100) \o <<".">> \o <<Digits[((h % 100) \div 10) + 1]>>
                                \o <<Digits[(h % 10) + 1]>>

\* The string of an id: `cat-n`, `item-n`.
IdText(id) ==
    (IF id[1] = "cat" THEN <<"c","a","t">> ELSE <<"i","t","e","m">>)
        \o <<"-">> \o NumberText(id[2])

\* `"${text}"` (exportImportService 96-97, 101, 110)
Quoted(text) == <<"\"">> \o text \o <<"\"">>

\* row.join(',') (exportImportService 118)
RECURSIVE Join(_, _)
Join(fields, sep) ==
    IF fields = <<>> THEN <<>>
    ELSE IF Len(fields) = 1 THEN fields[1]
    ELSE Join(SubSeq(fields, 1, Len(fields) - 1), sep) \o sep \o fields[Len(fields)]

\* The line exportToCSV writes for an item (exportImportService 93-118), for
\* the columns of ExportHeaders.
csvRow(item, cats) ==
    Join(<< IdText(item.id), Quoted(item.name), Quoted(item.description),
            PriceText(item.price), IdText(item.categoryId),
            Quoted(IF MapHas(cats, item.categoryId)
                   THEN MapGet(cats, item.categoryId).name ELSE <<>>) >>,
         <<",">>)

\* String.prototype.trim, for spaces.
RECURSIVE Trim(_)
Trim(text) ==
    IF text = <<>> THEN <<>>
    ELSE IF text[1] = " " THEN Trim(Tail(text))
    ELSE IF text[Len(text)] = " " THEN Trim(SubSeq(text, 1, Len(text) - 1))
    ELSE text

\* parseCSVLine (exportImportService 386-406), from character i on.
RECURSIVE parseCSVFrom(_, _, _, _, _)
parseCSVFrom(line, i, current, inQuotes, result) ==
    IF i > Len(line) THEN Append(result, Trim(current))
    ELSE IF line[i] = "\"" THEN parseCSVFrom(line, i + 1, current, ~inQuotes, result)
    ELSE IF line[i] = "," /\ ~inQuotes
    THEN parseCSVFrom(line, i + 1, <<>>, inQuotes, Append(result, Trim(current)))
    ELSE parseCSVFrom(line, i + 1, Append(current, line[i]), inQuotes, result)
parseCSVLine(line) == parseCSVFrom(line, 1, <<>>, FALSE, <<>>)

\* Items to write: names of up to MaxNameLen characters among a letter, the
\* comma and the double quote; descriptions and category names with and
\* without a comma; prices with and without a fraction.
NameChars == {"a", ",", "\""}
TextsOf(chars, n) == UNION {[1..k -> chars] : k \in 1..n}
Soups == <<"S","o","u","p","s",","," ","h","o","t">>
TrialCategories ==
    << [id |-> CatId(1), name |-> Appetizers, sortOrder |-> 1],
       [id |-> CatId(12), name |-> Soups, sortOrder |-> 2] >>
TrialItems ==
    {[id |-> ItemId(7), name |-> n, description |-> d, price |-> p, categoryId |-> c,
      availabilityFlag |-> TRUE] :
        n \in TextsOf(NameChars, MaxNameLen),
        d \in {Tasty, <<"h","o","t",",","d","r","y">>},
        p \in {500, 550, 1205},
        c \in {CatId(1), CatId(12)}}

\* exportToCSV writes the line of an item.
WriteLine ==
    /\ trial.pc = "item"
    /\ trial' = [pc |-> "line", item |-> trial.item,
                 line |-> csvRow(trial.item, TrialCategories)]
    /\ UNCHANGED <<dialogVars, download, now, storageVars, timers,
                   categories, menuItems, selectedCategory, loading, isUploading, isExporting,
                   toast, up, exported, im>>

\* importFromCSV reads the line back (exportImportService 260-261).
ParseLine ==
    /\ trial.pc = "line"
    /\ trial' = [pc |-> "parsed", item |-> trial.item, line |-> trial.line,
                 values |-> parseCSVLine(trial.line),
                 read |-> createMenuItemFromCSV(parseCSVLine(trial.line), ExportHeaders,
                                                <<"rnd", 1>>)]
    /\ UNCHANGED <<dialogVars, download, now, storageVars, timers,
                   categories, menuItems, selectedCategory, loading, isUploading, isExporting,
                   toast, up, exported, im>>

\* importFromCSV applied to a file: the items and the number of errors of its
\* answer (exportImportService 254-283).
ImportCsvFile ==
    /\ trial.pc = "file"
    /\ trial' = [pc |-> "imported", file |-> trial.file,
                 importedItems |-> csvItems(trial.file.lines, trial.file.headers,
                                            trial.file.rnds),
                 errors |-> csvErrors(trial.file.lines, trial.file.headers, trial.file.rnds)]
    /\ UNCHANGED <<dialogVars, download, now, storageVars, timers,
                   categories, menuItems, selectedCategory, loading, isUploading, isExporting,
                   toast, up, exported, im>>


\* ---------------------------------------------------------- specifications
\* The category list with the spreadsheet upload: the mount fetch and upload
\* runs.
NextUpload ==
    \/ FetchCategoriesDone
    \/ UploadStart
    \/ \E readable \in BOOLEAN, nRows \in 0..MaxRows : UploadOnload(readable, nRows)
    \/ \E row \in SheetRows, ok \in BOOLEAN : UploadRow(row, ok)
    \/ UploadAddCategoryDone
    \/ \E ok \in BOOLEAN : UploadSubmit(ok)
    \/ \E ok \in BOOLEAN : UploadBatchDone(ok)
    \/ UploadFetchCategoriesDone

SpecUpload == Init /\ [][NextUpload]_vars


\* The item list with export and import: the mount fetch, selecting a
\* category and going back, exportToJSON, and import runs.
NextImport ==
    \/ FetchCategoriesDone
    \/ \E id \in MapIds(categories), ok1, ok2, ok3 \in BOOLEAN : SelectCategory(id, ok1, ok2, ok3)
    \/ SelectCategoryDone
    \/ FetchMenuItemsDone
    \/ \E ok \in BOOLEAN : BackToCategories(ok)
    \/ ExportToJSON
    \/ \E known \in BOOLEAN : ImportStart(known)
    \/ \E read \in ImportReads, ok \in BOOLEAN : ImportOnload(read, ok)
    \/ \E ok \in BOOLEAN : ImportAddMenuItemDone(ok)
    \/ \E ok \in BOOLEAN : ImportFetchMenuItemsDone(ok)
    \/ \E ok \in BOOLEAN : ImportAddCategoryDone(ok)
    \/ ImportFetchCategoriesDone

SpecImport == Init /\ [][NextImport]_vars


\* The console with its two lists: the mount fetch, navigation, and every
\* kind of import and export run (spreadsheet upload, workbook export, JSON
\* export, file import), for a few sheets and files: rows that name a new
\* category, a known one and none; a CSV file of one line, an empty one, text
\* that is no JSON, the exported JSON file.
RunRows ==
    {[cat |-> c, price |-> <<"5",".","5","0">>, name |-> Taco] :
        c \in {Undefined, ToLowerCase(Appetizers), Drinks}}
RunFiles ==
    {[ext |-> "csv", headers |-> ExportHeaders, lines |-> ls,
      rnds |-> [i \in 1..MaxRows |-> <<"rnd", 1>>], fromExport |-> FALSE] :
        ls \in {<<>>, <<LineValues(ExportHeaders, FullLine)>>}}
RunReads ==
    {Read(f) : f \in RunFiles}
    \cup {Read([ext |-> "json", parseable |-> FALSE, fromExport |-> FALSE])}
    \cup (IF exported.written
          THEN {Read([ext |-> "json", parseable |-> TRUE, fromExport |-> TRUE,
                      data |-> [categories |-> exported.categories,
                                menuItems |-> exported.menuItems]])}
          ELSE {})

Next ==
    \/ FetchCategoriesDone
    \/ \E id \in MapIds(categories), ok1, ok2, ok3 \in BOOLEAN : SelectCategory(id, ok1, ok2, ok3)
    \/ SelectCategoryDone
    \/ FetchMenuItemsDone
    \/ \E ok \in BOOLEAN : BackToCategories(ok)
    \/ UploadStart
    \/ \E readable \in BOOLEAN, nRows \in 0..MaxRows : UploadOnload(readable, nRows)
    \/ \E row \in RunRows, ok \in BOOLEAN : UploadRow(row, ok)
    \/ UploadAddCategoryDone
    \/ \E ok \in BOOLEAN : UploadSubmit(ok)
    \/ \E ok \in BOOLEAN : UploadBatchDone(ok)
    \/ UploadFetchCategoriesDone
    \/ \E ok \in BOOLEAN : ExcelExport(ok)
    \/ \E written \in BOOLEAN : ExcelExportDone(written)
    \/ ExportToJSON
    \/ Export
    \/ \E known \in BOOLEAN : ImportStart(known)
    \/ \E read \in RunReads, ok \in BOOLEAN : ImportOnload(read, ok)
    \/ \E ok \in BOOLEAN : ImportAddMenuItemDone(ok)
    \/ \E ok \in BOOLEAN : ImportFetchMenuItemsDone(ok)
    \/ \E ok \in BOOLEAN : ImportAddCategoryDone(ok)
    \/ ImportFetchCategoriesDone

Spec == Init /\ [][Next]_vars


\* The FileReader of handleExcelUpload fails to read the file (App.tsx 257-258,
\* 369): it fires `error`, for which no handler is set, and never `load`, so
\* the try/finally inside onload never runs; the outer try has ended already.
UploadReadError ==
    /\ up.pc = "reading"
    /\ up' = [up EXCEPT !.pc = "readFailed"]
    /\ UNCHANGED <<otherVars, dialogVars, now, storageVars, timers, categories, menuItems, selectedCategory,
                   loading, isUploading, isExporting, toast, exported, im>>

\* The FileReader of importFromCSV or importFromJSON fails to read the file
\* (exportImportService.ts 247-248, 285, 294-295, 326): no `onerror` is set, so
\* the promise handleImport awaits (App.tsx 545) never settles and its finally
\* (567-569) never runs.
ImportReadError ==
    /\ im.pc = "reading"
    /\ im' = [im EXCEPT !.pc = "readFailed"]
    /\ UNCHANGED <<otherVars, dialogVars, now, storageVars, timers, categories, menuItems, selectedCategory,
                   loading, isUploading, isExporting, toast, exported, up>>

\* The steps the program takes by itself: a FileReader delivers its event, a
\* pending call settles, a handler goes on after its await.  The event loop
\* runs every one of them that is due; the steps of the user are left free.
ProgramStep ==
    \/ FetchCategoriesDone
    \/ SelectCategoryDone
    \/ FetchMenuItemsDone
    \/ \E readable \in BOOLEAN, nRows \in 0..MaxRows : UploadOnload(readable, nRows)
    \/ UploadReadError
    \/ \E row \in RunRows, ok \in BOOLEAN : UploadRow(row, ok)
    \/ UploadAddCategoryDone
    \/ \E ok \in BOOLEAN : UploadSubmit(ok)
    \/ \E ok \in BOOLEAN : UploadBatchDone(ok)
    \/ UploadFetchCategoriesDone
    \/ \E written \in BOOLEAN : ExcelExportDone(written)
    \/ im.pc = "reading" /\ \E read \in RunReads, ok \in BOOLEAN : ImportOnload(read, ok)
    \/ ImportReadError
    \/ \E ok \in BOOLEAN : ImportAddMenuItemDone(ok)
    \/ \E ok \in BOOLEAN : ImportFetchMenuItemsDone(ok)
    \/ \E ok \in BOOLEAN : ImportAddCategoryDone(ok)
    \/ ImportFetchCategoriesDone

\* The console of Spec with files the browser cannot read, under a fair event
\* loop.
NextLive ==
    \/ Next
    \/ UploadReadError
    \/ ImportReadError

SpecLive == Init /\ [][NextLive]_vars /\ WF_vars(ProgramStep)


\* The categories whose delete button the user clicks.
DeleteIds == {CatId(1), CatId(2)}

\* The category list with its dialogs: the mount fetch, deleting categories
\* through the confirmation dialog, adding categories through the form.
NextCategories ==
    \/ FetchCategoriesDone
    \/ \E id \in DeleteIds : DeleteCategory(id)
    \/ CancelDelete
    \/ \E ok \in BOOLEAN : ConfirmDelete(ok)
    \/ DeleteCategoryDone
    \/ OpenCategoryModal
    \/ CloseCategoryModal
    \/ \E categoryData \in FormCategories, dt \in {0, 1}, ok \in BOOLEAN :
          SaveCategory(categoryData, dt, ok)
    \/ \E ok \in BOOLEAN : SaveCategoryDone(ok)
    \/ SaveFetchCategoriesDone

SpecCategories == Init /\ [][NextCategories]_vars

\* ------------------------------------------------- availability toggles
\* updateMenuItem (mockApiService 237-244) for an id the Map has: the record
\* passed in replaces the stored one.
updateMenuItem(db, updatedItem) == MapSet(db, updatedItem)

\* The items a setMenuItems(prevItems => prevItems.map(...)) of App.tsx 229-231
\* gives: the item with the id of updatedItem is replaced.
ReplaceItem(items, updatedItem) ==
    [i \in DOMAIN items |-> IF items[i].id = updatedItem.id THEN updatedItem ELSE items[i]]

PendingToggles == Cardinality({i \in DOMAIN timers : timers[i].k = "toggle"})

\* handleToggleMenuItemAvailability (App.tsx 224-233) up to `await
\* api.updateMenuItem`: itemToToggle is an item of the rendered list
\* (MenuItemList.tsx 121, the switch is never disabled), originalItems the
\* menuItems of the render that handled the click.  The mock stores the item
\* when called; for an id the Map does not have it throws before any delay, so
\* the catch block (241-244) runs in the same task.
ToggleAvailability(itemToToggle, ok) ==
    /\ viewItemList /\ ItemViewCanStart
    /\ PendingToggles < MaxToggles
    /\ \E i \in DOMAIN menuItems : menuItems[i] = itemToToggle
    /\ LET updatedItem == [itemToToggle EXCEPT !.availabilityFlag = ~@]
           originalItems == menuItems
       IN  IF MapHas(menuItemDB, updatedItem.id)
           THEN /\ menuItems' = ReplaceItem(menuItems, updatedItem)
                /\ menuItemDB' = IF ok THEN updateMenuItem(menuItemDB, updatedItem)
                                        ELSE menuItemDB
                /\ timers' = Append(timers, Call("toggle", ok,
                                                 [id |-> updatedItem.id,
                                                  originalItems |-> originalItems]))
                /\ UNCHANGED toast
           ELSE /\ menuItems' = originalItems
                /\ toast' = Toast("error", "Failed to update item. Reverting...", 0, 0)
                /\ UNCHANGED <<menuItemDB, timers>>
    /\ UNCHANGED <<otherVars, dialogVars, now, categoryDB, categories, selectedCategory, loading,
                   isUploading, isExporting, up, exported, im>>

\* handleToggleMenuItemAvailability after its await (App.tsx 234-245): the
\* success toast, or the error toast and setMenuItems(originalItems).
ToggleAvailabilityDone ==
    /\ Fires("toggle")
    /\ LET c == timers[1] IN
       /\ now' = Later(c.due)
       /\ timers' = Tail(timers)
       /\ IF c.ok
          THEN /\ toast' = Toast("success", "Item is now available or unavailable.", 0, 0)
               /\ UNCHANGED menuItems
          ELSE /\ toast' = Toast("error", "Failed to update item. Reverting...", 0, 0)
               /\ menuItems' = c.data.originalItems
    /\ UNCHANGED <<otherVars, dialogVars, storageVars, categories, selectedCategory, loading,
                   isUploading, isExporting, up, exported, im>>

\* The item list with its availability switches: the mount fetch, selecting a
\* category and going back, and toggles of the listed items.
NextToggle ==
    \/ FetchCategoriesDone
    \/ \E id \in MapIds(categories), ok1, ok2, ok3 \in BOOLEAN : SelectCategory(id, ok1, ok2, ok3)
    \/ SelectCategoryDone
    \/ FetchMenuItemsDone
    \/ \E ok \in BOOLEAN : BackToCategories(ok)
    \/ \E i \in DOMAIN menuItems, ok \in BOOLEAN : ToggleAvailability(menuItems[i], ok)
    \/ ToggleAvailabilityDone

SpecToggle == Init /\ [][NextToggle]_vars

\* ------------------------------------------------- reordering categories
\* updateCategory (mockApiService 170-176) for an id the Map has: the record
\* passed in replaces the stored one.
updateCategory(db, updatedCategory) == MapSet(db, updatedCategory)

IndexOfId(cats, id) == CHOOSE i \in DOMAIN cats : cats[i].id = id

\* handleDrop (CategoryList.tsx 67-79): the dragged row is taken out and put
\* in at the index of the drop target, and every category gets the index of
\* its row, counted from 0, as sortOrder.
DropReorder(cats, draggedItemId, dropTargetId) ==
    LET d == IndexOfId(cats, draggedItemId)
        t == IndexOfId(cats, dropTargetId)
        without == SubSeq(cats, 1, d - 1) \o SubSeq(cats, d + 1, Len(cats))
        reordered == SubSeq(without, 1, t - 1) \o <<cats[d]>> \o SubSeq(without, t, Len(without))
    IN  [i \in DOMAIN reordered |-> [reordered[i] EXCEPT !.sortOrder = i - 1]]

\* updatesToSend (App.tsx 439-443): the categories whose sortOrder differs
\* from the one they have in originalCategories.
UpdatesToSend(reorderedCategories, originalCategories) ==
    SelectSeq(reorderedCategories,
              LAMBDA newCat : /\ MapHas(originalCategories, newCat.id)
                              /\ MapGet(originalCategories, newCat.id).sortOrder
                                     # newCat.sortOrder)

\* Storage after the updateCategory calls of updatesToSend.map (App.tsx 450):
\* each call the collaborator accepts has stored its category when it was made.
RECURSIVE UpdateCategories(_, _, _)
UpdateCategories(db, updates, accepted) ==
    IF updates = <<>> THEN db
    ELSE UpdateCategories(IF updates[1].id \in accepted /\ MapHas(db, updates[1].id)
                          THEN updateCategory(db, updates[1])
                          ELSE db,
                          Tail(updates), accepted)

\* handleDrop and handleReorderCategories (App.tsx 434-452) up to `await
\* Promise.all`.  accepted holds the ids whose updateCategory call resolves.
\* The calls are made together and their delays are equal, so Promise.all
\* settles with them: one timer stands for the calls of the run.
ReorderCategories(draggedItemId, dropTargetId, accepted) ==
    /\ viewCategoryList /\ UserCanStart
    /\ Len(timers) < MaxPending
    /\ draggedItemId # dropTargetId
    /\ MapHas(categories, draggedItemId) /\ MapHas(categories, dropTargetId)
    /\ LET originalCategories == categories
           reorderedCategories == DropReorder(categories, draggedItemId, dropTargetId)
           updatesToSend == UpdatesToSend(reorderedCategories, originalCategories)
       IN  /\ categories' = reorderedCategories
           /\ IF updatesToSend = <<>>
              THEN UNCHANGED <<categoryDB, timers>>
              ELSE /\ categoryDB' = UpdateCategories(categoryDB, updatesToSend, accepted)
                   /\ timers' = Append(timers,
                          Call("reorder",
                               \A i \in DOMAIN updatesToSend :
                                   /\ updatesToSend[i].id \in accepted
                                   /\ MapHas(categoryDB, updatesToSend[i].id),
                               [originalCategories |-> originalCategories]))
    /\ UNCHANGED <<otherVars, dialogVars, now, menuItemDB, menuItems, selectedCategory, loading,
                   isUploading, isExporting, toast, up, exported, im>>

\* handleReorderCategories after its await (App.tsx 452-457): the success
\* toast, or the error toast and setCategories(originalCategories).
ReorderCategoriesDone ==
    /\ Fires("reorder")
    /\ LET c == timers[1] IN
       /\ now' = Later(c.due)
       /\ timers' = Tail(timers)
       /\ IF c.ok
          THEN /\ toast' = Toast("success", "Category order saved!", 0, 0)
               /\ UNCHANGED categories
          ELSE /\ toast' = Toast("error", "Failed to save new category order. Reverting...", 0, 0)
               /\ categories' = c.data.originalCategories
    /\ UNCHANGED <<otherVars, dialogVars, storageVars, menuItems, selectedCategory, loading,
                   isUploading, isExporting, up, exported, im>>

\* The category list with its drag handles: the mount fetch and reorders.
NextReorder ==
    \/ FetchCategoriesDone
    \/ \E draggedItemId, dropTargetId \in MapIds(categories), accepted \in SUBSET MapIds(categories) :
          ReorderCategories(draggedItemId, dropTargetId, accepted)
    \/ ReorderCategoriesDone

SpecReorder == Init /\ [][NextReorder]_vars

\* The conversions of the import paths applied alone to the cells of a row.
InitEnums == InitPage /\ trial \in {[pc |-> "cells", cells |-> c] : c \in EnumCells}

NextEnums == ConvertEnums

SpecEnums == InitEnums /\ [][NextEnums]_vars

\* exportToCSV's lines read back by parseCSVLine and createMenuItemFromCSV, and
\* importFromCSV applied to files, alone.
InitCsv ==
    /\ InitPage
    /\ trial \in {[pc |-> "item", item |-> it] : it \in TrialItems}
                 \cup {[pc |-> "file", file |-> f] : f \in CsvFiles(ExportHeaders)}

NextCsv == WriteLine \/ ParseLine \/ ImportCsvFile

SpecCsv == InitCsv /\ [][NextCsv]_vars


\* ------------------------------------------------------------- properties
\* Two names are the same name up to letter case (folding to upper case, so
\* that the comparison does not rest on ToLowerCase).
UpperChar(c) == IF IndexIn(c, LowerChars) > 0 THEN UpperChars[IndexIn(c, LowerChars)] ELSE c
SameNameIgnoringCase(a, b) ==
    Len(a) = Len(b) /\ \A i \in DOMAIN a : UpperChar(a[i]) = UpperChar(b[i])

\* The upload run has read its sheet (its locals exist).
UpRunning == up.pc \in {"loop", "addCategory", "batch", "fetchCategories", "done"}

\* The name was in the mapping when the run began.
UpKnownAtStart(name) ==
    \E i \in DOMAIN up.cats : SameNameIgnoringCase(up.cats[i].name, name)

\* C1: in one upload run a category name that is not in the mapping at the
\* start of the run is created by at most one successful addCategory call, names
\* compared without regard to case; two accepted rows that name the same new
\* category have exactly one such call behind them and carry the same categoryId.
C1_NewCategoryCreatedOnce ==
    UpRunning =>
        /\ \A i, j \in DOMAIN up.created :
              SameNameIgnoringCase(up.created[i].name, up.created[j].name) => i = j
        /\ \A i, j \in DOMAIN up.newItems :
              SameNameIgnoringCase(up.itemCells[i], up.itemCells[j])
                  => up.newItems[i].categoryId = up.newItems[j].categoryId
        /\ \A i \in DOMAIN up.newItems :
              ~UpKnownAtStart(up.itemCells[i]) =>
                  \E j \in DOMAIN up.created :
                      /\ SameNameIgnoringCase(up.created[j].name, up.itemCells[i])
                      /\ up.newItems[i].categoryId = up.created[j].id

\* C1 witness: a finished run in which two accepted rows named the same new
\* category in different letter case.
C1_Witness ==
    /\ up.pc = "done"
    /\ \E i, j \in DOMAIN up.newItems :
          /\ i # j
          /\ up.itemCells[i] # up.itemCells[j]
          /\ SameNameIgnoringCase(up.itemCells[i], up.itemCells[j])
          /\ ~UpKnownAtStart(up.itemCells[i])
    /\ Len(up.created) = 1
    /\ up.cats # <<>> /\ up.rejections = 0

\* The items the run added to storage: those stored under ids storage did not
\* hold when the run began.
UpAdded == SelectSeq(menuItemDB, LAMBDA it : ~MapHas(up.itemsBefore, it.id))

UpRowHandled == UpRunning /\ up'.pc = "loop" /\ up'.i = up.i + 1

\* C6 (as claimed): a row whose price is missing, not a number, zero or
\* negative is counted as an error, gets an error message and is kept out of
\* the batch, and the loop goes on with the next row.
C6_BadPriceRowRejected ==
    [][ (UpRowHandled /\ ~up'.last.priceOk) =>
            /\ up'.errorCount = up.errorCount + 1
            /\ Len(up'.errors) = Len(up.errors) + 1
            /\ up'.newItems = up.newItems
            /\ up'.successCount = up.successCount ]_vars

\* C7: when the row loop ends every row has been counted exactly once:
\* successCount + errorCount is the number of rows, errors has errorCount
\* entries and the batch has successCount items; the run leaves the loop only
\* after the last row, whatever rows failed before.
C7_EveryRowCountedOnce ==
    UpRunning =>
        /\ up.successCount + up.errorCount = up.i
        /\ Len(up.errors) = up.errorCount
        /\ Len(up.newItems) = up.successCount
        /\ up.i <= up.nRows
        /\ (up.pc \in {"batch", "fetchCategories", "done"} => up.i = up.nRows)

\* C7 witness: the loop has ended after MaxRows rows, a failed row having come
\* before an accepted one.
C7_Witness ==
    /\ up.pc = "loop" /\ up.i = up.nRows /\ up.nRows = MaxRows
    /\ up.errorCount >= 1 /\ up.successCount >= 1
    /\ up.last.valid

\* The settled call at the head of the timers is the upload's addCategory and
\* it was rejected; this step runs its continuation.
UpAddCategoryRejectedStep ==
    Fires("upAddCategory") /\ ~timers[1].ok /\ timers' = Tail(timers)

\* C8: when addCategory is rejected for a row's new category, that row alone
\* is counted as an error and skipped, the run goes on with the next row, and
\* the items of the rows accepted in the run are all submitted: a run whose
\* batch call resolved has stored one item per accepted row.
C8_CategoryFailureSkipsRowOnly ==
    [][ /\ UpAddCategoryRejectedStep =>
              /\ up'.errorCount = up.errorCount + 1
              /\ Len(up'.errors) = Len(up.errors) + 1
              /\ up'.newItems = up.newItems
              /\ up'.i = up.i + 1 /\ up'.pc = "loop"
              /\ isUploading'
        /\ (up'.pc = "batch" /\ up.pc # "batch") =>
              /\ up'.i = up'.nRows
              /\ timers'[Len(timers')].data = Len(up'.newItems)
              /\ up'.batchOk =>
                    Len(SelectSeq(menuItemDB', LAMBDA it : ~MapHas(up'.itemsBefore, it.id)))
                        = up'.successCount ]_vars

\* C8 witness: a finished run in which a row failed on addCategory and a later
\* row was accepted and stored.
C8_Witness ==
    /\ up.pc = "done" /\ up.batchOk
    /\ \E i \in DOMAIN up.errors : up.errors[i].reason = "Failed to auto-create category"
    /\ up.last.valid /\ up.successCount >= 1
    /\ Len(UpAdded) = up.successCount

\* A message that prints a count of added items.
ShowsSuccessCount(t) == t.kind = "{n} items added successfully. {m} items failed." /\ t.n > 0

\* C9: when addMenuItemsBatch is rejected the run reports the whole batch as
\* failed: it shows no count of added items, its last message is the failure
\* message, the busy flag is cleared, and the item list on screen holds no item
\* that storage does not hold.
C9_BatchRejectionReportedWhole ==
    (up.pc = "done" /\ ~up.batchOk) =>
        /\ \A i \in DOMAIN up.shown : ~ShowsSuccessCount(up.shown[i])
        /\ up.shown # <<>>
        /\ up.shown[Len(up.shown)].type = "error"
        /\ toast = up.shown[Len(up.shown)]
        /\ ~isUploading
        /\ \A i \in DOMAIN menuItems : MapHas(menuItemDB, menuItems[i].id)

\* C9 witness: a run of MaxRows accepted rows whose batch call was rejected.
C9_Witness ==
    /\ up.pc = "done" /\ ~up.batchOk
    /\ up.successCount = MaxRows


\* The items the import run added to storage.
ImAdded == SelectSeq(menuItemDB, LAMBDA it : ~MapHas(im.itemsBefore, it.id))

\* Every category id written in the file was in storage when the run began
\* (the other category ids of the run are those generateId made up).
ImFileIdsKnown ==
    \A i \in DOMAIN im.items :
        im.items[i].categoryId \in RandomIds \/ MapHas(im.categoriesBefore, im.items[i].categoryId)

\* C3 (as claimed): a CSV import of N data lines that are all valid and name
\* no unknown category id, with no collaborator call rejected, adds exactly N
\* items to storage, and every one of them has the categoryId of a category
\* that is in storage when the run ends.
C3_CsvImportResolvesCategories ==
    (/\ im.pc = "done" /\ im.ext = "csv" /\ im.nLines > 0 /\ im.allValid
     /\ ImFileIdsKnown /\ im.rejections = 0) =>
        /\ Len(ImAdded) = im.nLines
        /\ \A i \in DOMAIN ImAdded : MapHas(categoryDB, ImAdded[i].categoryId)

\* Two menus are equivalent up to ids and timestamps: as many categories, as
\* many items, and every item of the one has an item of the other with its
\* name and price under a category of the same name.
CategoryNameOf(cats, item) ==
    IF MapHas(cats, item.categoryId) THEN MapGet(cats, item.categoryId).name ELSE Undefined
SameMenu(cats, items, cats0, items0) ==
    /\ Len(cats) = Len(cats0)
    /\ Len(items) = Len(items0)
    /\ \A j \in DOMAIN items0 : \E i \in DOMAIN items :
          /\ items[i].name = items0[j].name
          /\ items[i].price = items0[j].price
          /\ CategoryNameOf(cats, items[i]) = CategoryNameOf(cats0, items0[j])
          /\ CategoryNameOf(cats, items[i]) # Undefined

\* C4 (as claimed): when the file exportToJSON wrote from the full content of
\* storage has been imported with no collaborator call rejected, storage holds
\* a menu equivalent to the exported one.
C4_JsonRoundTrip ==
    (im.pc = "done" /\ im.fromExport /\ im.rejections = 0) =>
        SameMenu(categoryDB, menuItemDB, im.cats, im.items)

\* C5 (as claimed): an import run makes at most one item-creation call,
\* whatever the number of rows of its file.
C5_OneItemCreationCall ==
    (im.pc \in {"addMenuItem", "fetchMenuItems", "addCategory", "fetchCategories", "done"}) =>
        im.itemCalls <= 1

\* The number of items a run's messages report as imported.
ImReported ==
    IF \E i \in DOMAIN im.shown : im.shown[i].kind = "Successfully imported {n} items"
    THEN im.shown[CHOOSE i \in DOMAIN im.shown :
                     im.shown[i].kind = "Successfully imported {n} items"].n
    ELSE 0
UpReported ==
    IF \E i \in DOMAIN up.shown : ShowsSuccessCount(up.shown[i])
    THEN up.shown[CHOOSE i \in DOMAIN up.shown : ShowsSuccessCount(up.shown[i])].n
    ELSE 0

\* C10 (as claimed): when an upload or import run has ended, the number of
\* items its messages report as imported is the number of items it added to
\* storage, and a run that added items has shown a message of success.
C10_ReportedCountIsTruthful ==
    /\ (up.pc = "done") =>
          /\ UpReported = Len(UpAdded)
          /\ Len(UpAdded) > 0 => \E i \in DOMAIN up.shown : ShowsSuccessCount(up.shown[i])
    /\ (im.pc = "done") =>
          /\ ImReported = Len(ImAdded)
          /\ Len(ImAdded) > 0 => \E i \in DOMAIN im.shown : im.shown[i].type = "success"

\* C11 (as claimed): every item in storage has the categoryId of a category
\* that is in storage.
C11_ItemsReferenceCategories ==
    \A i \in DOMAIN menuItemDB : MapHas(categoryDB, menuItemDB[i].categoryId)

\* C13 (as claimed): no two categories in storage have the same sortOrder.
\* Every category of the model is active: the seed categories are, and the
\* upload creates its categories with activeFlag true (App.tsx 291).
C13_SortOrderIsTotal ==
    \A i, j \in DOMAIN categoryDB :
        categoryDB[i].sortOrder = categoryDB[j].sortOrder => i = j

\* C14 (as claimed): every item in storage has a non-empty name and a price
\* above zero.
C14_ItemsNamedAndPriced ==
    \A i \in DOMAIN menuItemDB :
        menuItemDB[i].name # <<>> /\ menuItemDB[i].price > 0

\* The addCategory calls of the upload that have not settled yet.
UpPendingAddCategory == {i \in DOMAIN timers : timers[i].k = "upAddCategory"}

\* C16: an upload handles its rows one after another: a row is looked up only
\* when no category-creation call of an earlier row is pending (the run has at
\* most one such call in flight, and waits for it with the row that made it),
\* the row counter never passes the sheet, and between two rows the mapping
\* holds the name and id of every category the run has created so far.
C16_RowsStrictlySequential ==
    UpRunning =>
        /\ Cardinality(UpPendingAddCategory) <= 1
        /\ (up.pc = "addCategory") <=> (UpPendingAddCategory # {})
        /\ up.pc = "addCategory" => up.row # Null /\ up.i < up.nRows
        /\ up.pc = "loop" =>
              /\ up.row = Null
              /\ \A j \in DOMAIN up.created :
                    /\ ToLowerCase(up.created[j].name) \in DOMAIN up.map
                    /\ up.map[ToLowerCase(up.created[j].name)] = up.created[j].id

\* C16 witness: the second row is about to be looked up after the first row
\* created a category, and a run has created two categories in two rows.
C16_Witness ==
    /\ up.pc = "loop" /\ up.i = 1 /\ up.i < up.nRows
    /\ Len(up.created) = 1 /\ UpPendingAddCategory = {}

\* C19 (as claimed): when the loop of an upload run starts, the mapping has an
\* entry for the lower-cased name of every category that is in storage at that
\* moment, and every entry of it is the id of a category in storage.
C19_MappingBuiltFromStorage ==
    (up.pc = "loop" /\ up.i = 0) =>
        /\ \A i \in DOMAIN up.categoriesBefore :
              ToLowerCase(up.categoriesBefore[i].name) \in DOMAIN up.map
        /\ \A key \in DOMAIN up.map : MapHas(up.categoriesBefore, up.map[key])

\* This step makes an addCategory call for the category form and the
\* collaborator accepts it.
FormCategoryCreated ==
    /\ Len(timers') = Len(timers) + 1
    /\ timers'[Len(timers')].k = "saveCategory"
    /\ timers'[Len(timers')].ok

\* C12 (as claimed), for the categories saved through the form: a successful
\* addCategory call stores the category under an id no stored category has,
\* leaves every stored category as it was, and the number of stored categories
\* grows by one, whatever the time between the calls.
C12_CreateNeverOverwrites ==
    [][ FormCategoryCreated =>
            /\ ~MapHas(categoryDB, timers'[Len(timers')].data.id)
            /\ Len(categoryDB') = Len(categoryDB) + 1
            /\ \A i \in DOMAIN categoryDB : categoryDB'[i] = categoryDB[i] ]_vars

\* This step makes a deleteCategory call that the collaborator carries out.
CategoryDeleted ==
    /\ Len(timers') = Len(timers) + 1
    /\ timers'[Len(timers')].k = "deleteCategory"
    /\ timers'[Len(timers')].ok

\* C15: a deleteCategory(id) call that succeeds leaves storage without a
\* category of that id and without an item of that category, and with every
\* other category and every item of another category as they were, and with
\* nothing else.
C15_DeleteCategoryCascades ==
    [][ CategoryDeleted =>
            LET id == timers'[Len(timers')].data.id IN
            /\ MapHas(categoryDB, id)
            /\ ~MapHas(categoryDB', id)
            /\ \A i \in DOMAIN menuItemDB' : menuItemDB'[i].categoryId # id
            /\ \A i \in DOMAIN categoryDB :
                  categoryDB[i].id # id => \E j \in DOMAIN categoryDB' : categoryDB'[j] = categoryDB[i]
            /\ \A i \in DOMAIN menuItemDB :
                  menuItemDB[i].categoryId # id
                      => \E j \in DOMAIN menuItemDB' : menuItemDB'[j] = menuItemDB[i]
            /\ Len(categoryDB') = Len(categoryDB) - 1
            /\ Len(menuItemDB')
                  = Cardinality({i \in DOMAIN menuItemDB : menuItemDB[i].categoryId # id}) ]_vars

\* C15 witness: category cat-1, which had two of the five items, has been
\* deleted and the call has resolved.
C15_Witness ==
    /\ toast.kind = "Category deleted successfully!"
    /\ ~MapHas(categoryDB, CatId(1)) /\ MapHas(categoryDB, CatId(2))
    /\ Len(menuItemDB) = 3

\* The head of the timers is a rejected deleteCategory call, made when no
\* other call was pending; nothing else has been started since (no call is
\* pending behind it, no dialog is open) and the list on screen is still the
\* list the optimistic removal left.
DeleteRejectedUndisturbed ==
    /\ Fires("deleteCategory") /\ ~timers[1].ok
    /\ timers' = Tail(timers)
    /\ timers[1].data.alone /\ Len(timers) = 1
    /\ ~dialog
    /\ categories = SelectSeq(timers[1].data.shown, LAMBDA c : c.id # timers[1].data.id)

\* C20 (as claimed), for the deletion of a category: when the collaborator
\* rejects the call and nothing else happened since the optimistic removal,
\* the list on screen becomes again the list that was shown before the
\* removal.
C20_RejectionRestoresShownList ==
    [][ DeleteRejectedUndisturbed => categories' = timers[1].data.shown ]_vars

\* The runs that are under way: an upload or an import between its start and
\* its finally, a workbook export waiting for its items.
UpInFlight == up.pc \in {"reading", "loop", "addCategory", "batch", "fetchCategories"}
ImInFlight ==
    im.pc \in {"reading", "addMenuItem", "fetchMenuItems", "addCategory", "fetchCategories"}
ExportCalls == {i \in DOMAIN timers : timers[i].k = "excelExport"}
RunsInFlight ==
    (IF UpInFlight THEN 1 ELSE 0) + (IF ImInFlight THEN 1 ELSE 0) + Cardinality(ExportCalls)

\* This step starts an upload, an import or an export (one that ends in the
\* step that starts it included).
RunStarts ==
    \/ UpInFlight' /\ ~UpInFlight
    \/ im' # im /\ ~ImInFlight
    \/ Cardinality(ExportCalls') > Cardinality(ExportCalls)
    \/ exported' # exported

\* C17: at most one import or export run is under way at any time; while one
\* is, the busy flag it set is set (isUploading for an upload or an import,
\* isExporting for an export); and a run starts only when neither flag is set
\* and no run is under way.
C17_OneRunAtATime ==
    /\ [](/\ RunsInFlight <= 1
          /\ (UpInFlight \/ ImInFlight) => isUploading
          /\ ExportCalls # {} => isExporting)
    /\ [][RunStarts => ~isUploading /\ ~isExporting /\ RunsInFlight = 0]_vars

\* C17 witness: an import of the exported JSON file is creating its
\* categories, after an upload run has ended; the busy overlay hides both
\* lists.
C17_Witness ==
    /\ im.pc = "addCategory" /\ im.fromExport
    /\ up.pc = "done"
    /\ isUploading /\ ~viewCategoryList /\ ~viewItemList
    /\ RunsInFlight = 1

\* C18: every started spreadsheet upload and every started file import
\* eventually ends, completed or failed, and when it ends the busy flag
\* isUploading is reset to false; a file that cannot be read, content that
\* cannot be parsed and a rejected collaborator call included.
C18_ImportsEndAndResetFlag ==
    /\ (up.pc = "reading") ~> (up.pc = "done" /\ ~isUploading)
    /\ (im.pc = "reading") ~> (im.pc = "done" /\ ~isUploading)

\* C21: an export that is given no items reports a no-op and writes no file:
\* handleExport never downloads a file without item rows, and handleExcelExport
\* answers an empty item set with the "No items to export." message.
C21_EmptyExportIsNoOp ==
    /\ [](download.written => download.rows # <<>>)
    /\ [][(Fires("excelExport") /\ timers[1].ok /\ timers[1].data = <<>>)
             => toast'.kind = "No items to export."]_vars

\* A step of an export: a file is written, or the export flag changes.
ExportStep ==
    download' # download \/ exported' # exported \/ isExporting' # isExporting

\* C22: export only reads: every step of handleExport, exportToJSON and
\* handleExcelExport, whatever its outcome, leaves the categories and items of
\* storage and the category and item lists of the page as they were.
C22_ExportIsReadOnly ==
    [][ExportStep => UNCHANGED <<categoryDB, menuItemDB, categories, menuItems>>]_vars

\* C22 witness: the CSV file and the JSON file have been written from a
\* non-empty item list, and the list and storage are still what was exported.
C22_Witness ==
    /\ download.written /\ download.rows # <<>> /\ download.rows = menuItems
    /\ exported.written /\ exported.menuItems = menuItemDB
    /\ toast.kind = "Export completed successfully!"

\* The step in which decoding fails: XLSX.read throws in the onload of the
\* upload, or JSON.parse throws in importFromJSON (the JSON files that
\* exportToJSON did not write are text that is no JSON).
UpParseFailed == up.pc = "reading" /\ up'.pc = "done"
ImParseFailed ==
    /\ im.pc = "reading" /\ im'.pc \notin {"reading", "readFailed"}
    /\ im'.ext = "json" /\ ~im'.fromExport

\* C23: when the content of the file cannot be decoded, the import is aborted
\* in that step: one failure message is shown, storage is left as it was, no
\* call to the collaborator is made, the busy flag is reset; and the run that
\* ended takes no further step (the file is not parsed again).
C23_ParseErrorAbortsImport ==
    [][/\ UpParseFailed =>
            /\ toast' = Toast("error", "Failed to process the Excel file.", 0, 0)
            /\ up'.shown = <<toast'>>
            /\ UNCHANGED <<categoryDB, menuItemDB, timers>>
            /\ ~isUploading'
       /\ ImParseFailed =>
            /\ im'.pc = "done"
            /\ toast' = Toast("error", "Failed to parse JSON file", 0, 0)
            /\ im'.shown = <<toast'>>
            /\ UNCHANGED <<categoryDB, menuItemDB, timers>>
            /\ ~isUploading'
       /\ up.pc = "done" => (up' = up \/ up'.pc = "reading")
       /\ im.pc = "done" => (im' = im \/ im'.pc \in {"reading", "done"})]_vars

\* C23 witness: a workbook that could not be read and then text that is no
\* JSON have been answered with their messages, and storage holds the seed
\* data.
C23_Witness ==
    /\ up.pc = "done" /\ up.shown = << Toast("error", "Failed to process the Excel file.", 0, 0) >>
    /\ up.nRows = 0
    /\ im.pc = "done" /\ im.ext = "json" /\ ~im.fromExport
    /\ toast = Toast("error", "Failed to parse JSON file", 0, 0)
    /\ categoryDB = initialCategoriesData /\ menuItemDB = initialMenuItemsData

\* C24: in every item an import builds, by spreadsheet upload or from a CSV
\* line, currency is a member of Currency, specialType of SpecialType and
\* imageOrientation of ImageOrientation; a cell outside the enum has been
\* replaced by the default (USD, None, 1:1).
C24_EnumFieldsFallBack ==
    trial.pc = "item" =>
        /\ trial.upload.currency \in Currency
        /\ trial.upload.specialType \in SpecialType
        /\ trial.upload.imageOrientation \in ImageOrientation
        /\ trial.csv.currency \in Currency
        /\ trial.csv.specialType \in SpecialType
        /\ trial.csv.imageOrientation \in ImageOrientation

\* An item whose name, description or category name contains a comma.
HasComma(text) == \E i \in DOMAIN text : text[i] = ","
TrialHasComma(item) ==
    \/ HasComma(item.name)
    \/ HasComma(item.description)
    \/ HasComma(MapGet(TrialCategories, item.categoryId).name)

\* C25: the line exportToCSV writes for an item with commas in its name,
\* description or category name is split by parseCSVLine into one field per
\* header column, and createMenuItemFromCSV reads back the name, the
\* description, the price and the category id that were written.
C25_CsvLineRoundTrip ==
    (trial.pc = "parsed" /\ TrialHasComma(trial.item)) =>
        /\ Len(trial.values) = Len(ExportHeaders)
        /\ trial.read.tag = "item"
        /\ trial.read.item.name = trial.item.name
        /\ trial.read.item.description = trial.item.description
        /\ trial.read.item.price = trial.item.price
        /\ trial.read.item.categoryId = IdText(trial.item.categoryId)

\* C26: importFromCSV accounts for every data line that is not blank: the
\* number of imported items plus the number of entries of the error list is
\* the number of such lines.
C26_EveryRowItemOrError ==
    trial.pc = "imported" =>
        Len(trial.importedItems) + trial.errors = Len(trial.file.lines)

\* A loop iteration has just ended with its row rejected by validation: the
\* last error pushed is about the price or the item name.
UpRowRejectedByValidation ==
    /\ UpRowHandled
    /\ Len(up'.errors) = Len(up.errors) + 1
    /\ up'.errors[Len(up'.errors)].reason \in {"Invalid or missing Price", "Missing Item Name"}

\* C27: a row of a spreadsheet upload that validation rejects (price invalid
\* or missing, item name missing) has changed nothing in storage: no category
\* has been created on its behalf.
C27_RejectedRowLeavesStorage ==
    [][UpRowRejectedByValidation => up'.created = up.created]_vars


ToggleRejected ==
    /\ Fires("toggle")
    /\ ~timers[1].ok
    /\ timers' = Tail(timers)

FlagAgrees(items, db, id) ==
    /\ MapHas(items, id)
    /\ MapHas(db, id)
    /\ MapGet(items, id).availabilityFlag = MapGet(db, id).availabilityFlag

\* C28: when a rejected availability toggle returns while a toggle of another
\* item has been made, the revert touches only the item of the rejected
\* toggle: every other item of the list whose flag agreed with storage still
\* has the flag storage has, so the toggle that succeeded is not undone.
C28_RevertKeepsOtherToggles ==
    [][ToggleRejected =>
          \A id \in MapIds(menuItems) \ {timers[1].data.id} :
              FlagAgrees(menuItems, menuItemDB, id) => FlagAgrees(menuItems', menuItemDB', id)]_vars

\* A getMenuItems call whose response sets the item list is pending.
ItemFetchInFlight ==
    \E i \in DOMAIN timers :
        timers[i].k \in {"selectCategory", "fetchMenuItems", "imFetchMenuItems"}

\* C29: whenever no item fetch is in flight, every item of the local list
\* belongs to the selected category, and the list is empty when no category is
\* selected: a late response for an earlier selection does not set the list.
C29_ListIsOfSelectedCategory ==
    ~ItemFetchInFlight =>
        /\ selectedCategory = Null => menuItems = <<>>
        /\ \A i \in DOMAIN menuItems : menuItems[i].categoryId = selectedCategory

ReorderRejected ==
    /\ Fires("reorder")
    /\ ~timers[1].ok
    /\ timers' = Tail(timers)

\* C30: when a category reorder has failed (one of its updateCategory calls
\* was rejected) and its calls have returned, every category of the reverted
\* local list has in storage the sortOrder it has in the list: storage is in
\* the order it had before the reorder.
C30_FailedReorderLeavesStorage ==
    [][ReorderRejected =>
          \A i \in DOMAIN categories' :
              MapHas(categoryDB', categories'[i].id) =>
                  MapGet(categoryDB', categories'[i].id).sortOrder = categories'[i].sortOrder]_vars

=========================================================================
